---- MODULE Spec2Model ----
(***************************************************************************)
(* A model of the weaver static-site build engine (crates/weaver):         *)
(*   - route_from_path         (routes.rs)                                 *)
(*   - LiquidGlobals::new      (renderers/globals.rs)                      *)
(*   - Weaver::build           (lib.rs) with its render and side-effect    *)
(*     tasks (renderers/mod.rs, tasks/*.rs)                                *)
(* and of the watch loop of the serve command (crates/weaving, main.rs).   *)
(*                                                                         *)
(* Strings are sequences of tokens: the separators "/" and "." are tokens  *)
(* of their own and every other token is a run of ordinary characters, so  *)
(* "content/blog/post1.md" is <<"content","/","blog","/","post1",".","md">>*)
(* and the empty string is << >>.                                          *)
(***************************************************************************)
EXTENDS Integers, Sequences, FiniteSets, TLC

VARIABLES
    \* ---- route_from_path applied to one input
    rtContentDir,   \* the content_dir argument
    rtPath,         \* the path argument
    rtPc,           \* "call" before the call, "returned" / "panicked" after
    rtResult        \* the String returned

routeVars == <<rtContentDir, rtPath, rtPc, rtResult>>

VARIABLES
    \* ---- LiquidGlobals::new applied to one site and one page
    glDocs,         \* the documents of the site, in the order of the scan
    glPage,         \* the page rendered: an index of glDocs, or 0 for the
                    \* fresh Document::default() of the sitemap and feed tasks
    glOrder,        \* the order in which the snapshot HashMap yields its keys
    glPc,           \* "call" before the call, "built" after
    glGlobals       \* the LiquidGlobals built

globalsVars == <<glDocs, glPage, glOrder, glPc, glGlobals>>

VARIABLES
    \* ---- Weaver::build applied to one site
    bScan,          \* the documents as scan_content loaded them
    bTemplates,     \* self.templates, as scan_templates loaded them
    bEnv,           \* the file system around the build and what fails in it
    bOrder,         \* the order in which the snapshot HashMap yields its keys
    bDocs,          \* self.documents: the shared, lockable documents
    bPc,            \* where the coordinator (build itself) stands
    bIdx,           \* the index of the loop the coordinator is in
    bSnapshot,      \* all_liquid_pages_map_arc
    bGlobals,       \* the LiquidGlobals moved into each render task
    bStatus,        \* per task of the list tasks: unspawned, running, done
    bResult,        \* per finished task: what its JoinHandle yields
    bDisk,          \* the files and directories written below build_dir
    bReturn         \* what build returned, once it has

buildVars == <<bScan, bTemplates, bEnv, bOrder, bDocs, bPc, bIdx, bSnapshot,
               bGlobals, bStatus, bResult, bDisk, bReturn>>

VARIABLES
    \* ---- the sort of one bucket (globals.rs:101-107)
    soInputs,       \* the published values of the frontmatters of the files
                    \* of one section, in the order the pages were pushed
    soPc,           \* "call" before the sort, "sorted" after
    soBucket        \* the bucket, sorted

sortVars == <<soInputs, soPc, soBucket>>

VARIABLES
    \* ---- the watch loop of the serve command (main.rs:196-273)
    wConfig,        \* instance.config: build_dir and serve_config
    wExcludes,      \* compiled_excludes
    wRx,            \* rx: the events the watcher has sent and the loop has
                    \* not yet taken
    wArrived,       \* how many events the file system has reported itself
    wNow,           \* the clock, in debounce durations
    wLast,          \* last_build_time
    wPc,            \* "initial" during the first build, "watching" when the
                    \* loop waits for rx, "rebuilding" while it awaits a
                    \* build, "panicked" once the task has panicked and
                    \* "exited" once main has returned
    wEvent,         \* res of the iteration the loop went through last
    wOutcome,       \* how that iteration ended
    wRebuilds,      \* the rebuilds started
    wReloads,       \* the "reload" messages sent to the broadcaster
    wLog,           \* what the loop printed of its rebuilds: the event and
                    \* the time of each, and how it ended
    wInstance,      \* instance: the Weaver of the iteration
    wSeen,          \* the content files the glob of its scan yielded
    wInFlight,      \* the triggered builds that have not returned
    wBegan          \* now of the iteration (main.rs:224)

watchVars == <<wConfig, wExcludes, wRx, wArrived, wNow, wLast, wPc, wEvent,
               wOutcome, wRebuilds, wReloads, wLog, wInstance, wSeen,
               wInFlight, wBegan>>

VARIABLES
    \* ---- the live-reload broadcaster and the websocket handlers
    \*      (main.rs:152-190, routes.rs:18-106)
    rClients,       \* clients: the registry of the senders of the handlers
    rPc,            \* per connection: where its handler stands
    rUp,            \* per connection: the client still holds its socket
    rChan,          \* per connection: the messages in its broadcast channel
    rSocket,        \* per connection: the frames sent to its socket
    rFileChange,    \* the messages in the file_change channel
    rSignals,       \* the "reload" signals the watch loop has sent
    rBroadcasts     \* the iterations of the broadcaster

reloadVars == <<rClients, rPc, rUp, rChan, rSocket, rFileChange, rSignals,
                rBroadcasts>>

VARIABLES
    \* ---- serve_catchall applied to one request (routes.rs:119-199)
    svConfig,       \* instance.config of the Weaver the handler makes
    svReq,          \* request.url()
    svFs,           \* what the file system holds when the request is served
    svPc,           \* "listening", "call" in the handler, "answered" after
    svResponse      \* the Response and the file paths read for it, one for
                    \* each dispatch

serveVars == <<svConfig, svReq, svFs, svPc, svResponse>>

VARIABLES
    \* ---- the mutexes of one build (lib.rs:238-310, renderers/mod.rs:57,
    \*      102, 208, globals.rs:54)
    lkNames,        \* per document: the template name of its metadata
    lkDoc,          \* per document: who holds its Mutex, "free" when nobody
    lkTpl,          \* per template: who holds its Mutex, "free" when nobody
    lkBuild,        \* build(): where it stands, and the document it is at
    lkConvert,      \* per document: where its convert task stands
    lkRender,       \* per document: where its render task stands, and the
                    \* template it is at
    lkSide          \* per side-effect task: where it stands

lockVars == <<lkNames, lkDoc, lkTpl, lkBuild, lkConvert, lkRender, lkSide>>

vars == <<routeVars, globalsVars, buildVars, sortVars, watchVars, reloadVars,
          serveVars, lockVars>>

\* the parts of the state a specification does not exercise stay idle
IdleRoute ==
    /\ rtContentDir = << >>
    /\ rtPath = << >>
    /\ rtPc = "idle"
    /\ rtResult = << >>

IdleGlobals ==
    /\ glDocs = << >>
    /\ glPage = 0
    /\ glOrder = << >>
    /\ glPc = "idle"
    /\ glGlobals = << >>

IdleWatch ==
    /\ wConfig = << >>
    /\ wExcludes = << >>
    /\ wRx = << >>
    /\ wArrived = 0
    /\ wNow = 0
    /\ wLast = 0
    /\ wPc = "idle"
    /\ wEvent = << >>
    /\ wOutcome = "none"
    /\ wRebuilds = 0
    /\ wReloads = 0
    /\ wLog = << >>
    /\ wInstance = << >>
    /\ wSeen = << >>
    /\ wInFlight = 0
    /\ wBegan = 0

IdleReload ==
    /\ rClients = << >>
    /\ rPc = << >>
    /\ rUp = << >>
    /\ rChan = << >>
    /\ rSocket = << >>
    /\ rFileChange = << >>
    /\ rSignals = 0
    /\ rBroadcasts = 0

IdleServe ==
    /\ svConfig = << >>
    /\ svReq = << >>
    /\ svFs = << >>
    /\ svPc = "idle"
    /\ svResponse = << >>

IdleLocks ==
    /\ lkNames = << >>
    /\ lkDoc = << >>
    /\ lkTpl = << >>
    /\ lkBuild = << >>
    /\ lkConvert = << >>
    /\ lkRender = << >>
    /\ lkSide = << >>

IdleSort ==
    /\ soInputs = << >>
    /\ soPc = "idle"
    /\ soBucket = << >>

IdleBuild ==
    /\ bScan = << >>
    /\ bTemplates = << >>
    /\ bEnv = << >>
    /\ bOrder = << >>
    /\ bDocs = << >>
    /\ bPc = "idle"
    /\ bIdx = 0
    /\ bSnapshot = << >>
    /\ bGlobals = << >>
    /\ bStatus = << >>
    /\ bResult = << >>
    /\ bDisk = {}
    /\ bReturn = << >>

(***************************************************************************)
(* Bounds of the model                                                     *)
(***************************************************************************)
\* directories between the content root and a content file
MaxDepth == 2
\* documents of a site
MaxDocs == 2
\* distinct instants of publication
MaxStamp == 2
\* pages of one bucket
MaxBucket == 3

(***************************************************************************)
(* Token strings                                                           *)
(***************************************************************************)
\* the element of a one-element set; { e(x) : x \in {v} } names the value
\* v as x in e, and The gives the value of e back
The(S) == CHOOSE x \in S : TRUE

RECURSIVE Concat(_)
\* the concatenation of a sequence of strings (format!)
Concat(ss) == IF ss = << >> THEN << >> ELSE Head(ss) \o Concat(Tail(ss))

RECURSIVE JoinWith(_, _)
\* [String]::join(sep)
JoinWith(ss, sep) ==
    IF ss = << >> THEN << >>
    ELSE IF Len(ss) = 1 THEN ss[1]
    ELSE ss[1] \o <<sep>> \o JoinWith(Tail(ss), sep)

\* the positions of sep in s, in increasing order, between 0 and Len(s)+1
SepPositions(s, sep) ==
    The({ <<0>>
          \o [k \in 1..Cardinality(seps) |->
                CHOOSE i \in seps : Cardinality({j \in seps : j < i}) = k - 1]
          \o <<Len(s) + 1>> :
          seps \in { {i \in 1..Len(s) : s[i] = sep} } })

\* str::split(sep): the pieces between the separators, empty pieces included
SplitOn(s, sep) ==
    The({ [k \in 1..(Len(pos) - 1) |-> SubSeq(s, pos[k] + 1, pos[k + 1] - 1)] :
          pos \in { SepPositions(s, sep) } })

RECURSIVE SelectIdx(_, _, _)
\* the elements s[i], in order, whose index i >= from is in keep
SelectIdx(s, keep, from) ==
    IF from > Len(s) THEN << >>
    ELSE (IF from \in keep THEN <<s[from]>> ELSE << >>)
         \o SelectIdx(s, keep, from + 1)

(***************************************************************************)
(* std::path                                                               *)
(***************************************************************************)
\* the component a piece of a path stands for
ComponentOf(piece) ==
    [kind |-> IF piece = <<".", ".">> THEN "ParentDir"
              ELSE IF piece = <<".">> THEN "CurDir"
              ELSE "Normal",
     name |-> piece]

\* Path::components on a Unix path: a leading "/" is RootDir, empty pieces
\* and "." pieces are dropped (a leading "." of a relative path is CurDir),
\* ".." is ParentDir, every other piece is Normal.
Components(p) ==
    The({ (IF rooted THEN <<[kind |-> "RootDir", name |-> <<"/">>]>> ELSE << >>)
          \o The({ SelectIdx(comps, keep, 1) :
                   comps \in { [i \in 1..Len(pieces) |-> ComponentOf(pieces[i])] },
                   keep  \in { {i \in 1..Len(pieces) :
                                  /\ pieces[i] # << >>
                                  /\ (pieces[i] = <<".">> => (i = 1 /\ ~rooted))} } }) :
          rooted \in { p # << >> /\ p[1] = "/" },
          pieces \in { SplitOn(p, "/") } })

\* Path::strip_prefix: Ok(rest) when the components of base begin those of
\* path, Err otherwise.
StripPrefix(path, base) ==
    The({ IF Len(bc) <= Len(pc) /\ SubSeq(pc, 1, Len(bc)) = bc
          THEN [ok |-> TRUE, rest |-> SubSeq(pc, Len(bc) + 1, Len(pc))]
          ELSE [ok |-> FALSE, rest |-> << >>] :
          pc \in { Components(path) }, bc \in { Components(base) } })

\* Path::file_stem of a single Normal component: the name up to its last
\* ".", the whole name when it has no "." or only a leading one.
FileStem(name) ==
    The({ IF dots = {} THEN name
          ELSE The({ IF last = 1 THEN name ELSE SubSeq(name, 1, last - 1) :
                     last \in { CHOOSE i \in dots : \A j \in dots : j <= i } }) :
          dots \in { {i \in 1..Len(name) : name[i] = "."} } })

\* Path::to_string_lossy of the path strip_prefix returns
RelString(rest) == JoinWith([i \in 1..Len(rest) |-> rest[i].name], "/")

(***************************************************************************)
(* routes.rs                                                               *)
(***************************************************************************)
\* the names of the Normal components (routes.rs:21-30)
NormalNames(rest) ==
    SelectIdx([i \in 1..Len(rest) |-> rest[i].name],
              {i \in 1..Len(rest) : rest[i].kind = "Normal"}, 1)

\* The route parts after "pretty URL" handling (routes.rs:21-53)
RouteParts(rest) ==
    The({ IF names = << >> THEN << >>
          ELSE The({ IF stem = <<"index">>
                     THEN SubSeq(names, 1, Len(names) - 1)
                     ELSE Append(SubSeq(names, 1, Len(names) - 1), stem) :
                     stem \in { FileStem(names[Len(names)]) } }) :
          names \in { NormalNames(rest) } })

\* a mutant: the trailing slash is never pushed
route_from_path_NoTrailingSlash(content_dir, path) ==
    LET sp == StripPrefix(path, content_dir)
    IN  IF ~sp.ok THEN [outcome |-> "returned", route |-> << >>]
        ELSE [outcome |-> "returned",
              route |-> <<"/">> \o JoinWith(RouteParts(sp.rest), "/")]

\* a mutant: an index file keeps its stem as a segment
route_from_path_KeepIndex(content_dir, path) ==
    LET sp == StripPrefix(path, content_dir)
        names == [i \in 1..Len(sp.rest) |-> sp.rest[i].name]
        parts == IF names = << >> THEN << >>
                 ELSE Append(SubSeq(names, 1, Len(names) - 1),
                             FileStem(names[Len(names)]))
        r0 == <<"/">> \o JoinWith(parts, "/")
    IN  IF ~sp.ok THEN [outcome |-> "returned", route |-> << >>]
        ELSE [outcome |-> "returned",
              route |-> IF Len(r0) > 1 THEN Append(r0, "/") ELSE r0]

\* steps 3 and following of route_from_path (routes.rs:55-69), for the
\* relative path rest with the route parts route_parts
RouteString(rest, route_parts) ==
    The({ IF RelString(rest) = <<"index", ".", "md">> THEN <<"/">>
          ELSE IF Len(r0) > 1 THEN Append(r0, "/") ELSE r0 :
          r0 \in { <<"/">> \o JoinWith(route_parts, "/") } })

\* route_from_path(content_dir, path): how the call ends and the String it
\* returns.
route_from_path(content_dir, path) ==
    The({ IF ~sp.ok
          THEN [outcome |-> "returned", route |-> << >>]
          ELSE [outcome |-> "returned",
                route |-> The({ RouteString(sp.rest, route_parts) :
                                route_parts \in { RouteParts(sp.rest) } })] :
          sp \in { StripPrefix(path, content_dir) } })

(***************************************************************************)
(* document.rs                                                             *)
(***************************************************************************)
\* A published string (an Option<String>) is None, the text of a local date
\* and time with its offset, as DateTime<Local>::to_string() writes it
\* ("2024-10-27 01:30:00 +01:00": wall-clock time, then offset), or a raw
\* frontmatter string the date parser rejected.  Instants, wall-clock times
\* and offsets are counted in half hours.
PublishedNone == [kind |-> "none", wall |-> 0, offset |-> 0]

PublishedRaw == [kind |-> "text", wall |-> 0, offset |-> 0]

\* the offset of the local time zone at an instant: the zone leaves summer
\* time (+01:00) for winter time (+00:00) after instant 1
LocalOffset(instant) == IF instant <= 1 THEN 2 ELSE 0

\* DateTime::<Local>::from(instant).to_string()
LocalString(instant) ==
    [kind |-> "date", wall |-> instant + LocalOffset(instant),
     offset |-> LocalOffset(instant)]

\* Option<String>'s order: None before every Some, and Strings by their
\* characters: the digits of a date before the letters of a raw string,
\* dates by wall-clock time and then by the text of the offset
OptionStringLess(a, b) ==
    LET rank(x) == CASE x.kind = "none" -> 0 [] x.kind = "date" -> 1
                     [] x.kind = "text" -> 2
    IN  \/ rank(a) < rank(b)
        \/ /\ a.kind = "date" /\ b.kind = "date"
           /\ \/ a.wall < b.wall
              \/ a.wall = b.wall /\ a.offset < b.offset

\* document.rs:92-112: a published value the date parser accepts is written
\* again as a local date, one it rejects is kept as it is, and a missing one
\* becomes the creation time of the file
NormalizePublished(published) ==
    CASE published.kind = "date"    -> LocalString(published.at)
      [] published.kind = "text"    -> PublishedRaw
      [] published.kind = "missing" -> LocalString(published.at)

\* BaseMetaData::default(): template "default", emit true, published None
BaseMetaDataDefault ==
    [title |-> << >>, template |-> <<"default">>, emit |-> TRUE,
     published |-> PublishedNone, tags |-> << >>]

\* a mutant: the document returned for a frontmatter that does not
\* deserialize asks for a template no site has
DocumentDefault_NoTemplate ==
    [at_path |-> << >>, content_root |-> << >>,
     metadata |-> [BaseMetaDataDefault EXCEPT !.template = <<"nosuch">>],
     markdown |-> << >>, toc |-> << >>, emit |-> FALSE]

\* Document::default() (the derived Default): empty paths, emit false
DocumentDefault ==
    [at_path |-> << >>, content_root |-> << >>, metadata |-> BaseMetaDataDefault,
     markdown |-> << >>, toc |-> << >>, emit |-> FALSE]

\* document_toc::toc_from_document / MarkdownRenderer::toc_from_document:
\* the headings of the markdown text, a function of that text alone
TocOf(markdown) == IF markdown = << >> THEN << >> ELSE <<"toc">> \o markdown

\* Document::new_from_path(content_root, path) on a file whose frontmatter
\* is fm (fm.ok: it deserializes into BaseMetaData) and whose body is body:
\* the default document when the frontmatter does not deserialize, otherwise
\* a document whose emit flag is copied from its metadata.
NewFromPath(content_root, path, fm, body) ==
    IF ~fm.ok THEN DocumentDefault
    ELSE The({ [at_path |-> path, content_root |-> content_root,
                metadata |-> base_metadata, markdown |-> body,
                toc |-> TocOf(body), emit |-> base_metadata.emit] :
               base_metadata \in { [title |-> fm.title, template |-> fm.template,
                                    emit |-> fm.emit,
                                    published |-> NormalizePublished(fm.published),
                                    tags |-> fm.tags] } })

(***************************************************************************)
(* renderers/globals.rs                                                    *)
(***************************************************************************)
\* impl From<&Document> for LiquidGlobalsPage
PageFrom(doc) ==
    [route |-> route_from_path(doc.content_root, doc.at_path).route,
     meta  |-> doc.metadata,
     body  |-> << >>,
     toc   |-> doc.toc,
     title |-> doc.metadata.title]

\* the first path segment of a snapshot key (globals.rs:59-78): None when
\* the key does not begin with "/" or has nothing after it, the segment's
\* name for a Normal component and "root" for any other component
FirstComponent(route) ==
    The({ IF comps # << >> /\ comps[1].kind = "RootDir" /\ Len(comps) >= 2
          THEN [some |-> TRUE,
                name |-> IF comps[2].kind = "Normal" THEN comps[2].name
                         ELSE <<"root">>]
          ELSE [some |-> FALSE, name |-> << >>] :
          comps \in { Components(route) } })

\* HashMap::insert / get_mut().push() on the content map
MapInsert(m, k, v) == [x \in DOMAIN m \cup {k} |-> IF x = k THEN v ELSE m[x]]

\* a mutant: a page is filed under its whole route, not its first segment
ContentMapStep_KeyByRoute(content_map, page_route, route, page) ==
    IF route = page_route THEN content_map
    ELSE MapInsert(content_map, route, <<page>>)

\* one pass of the loop over the snapshot (globals.rs:58-97) for the entry
\* at key route
ContentMapStep(content_map, page_route, route, page) ==
    IF route = page_route THEN content_map
    ELSE The({ IF ~fc.some THEN MapInsert(content_map, route, <<page>>)
               ELSE IF fc.name \in DOMAIN content_map
                    THEN IF route # <<"/">> \o fc.name \o <<"/">>
                         THEN MapInsert(content_map, fc.name,
                                        Append(content_map[fc.name], page))
                         ELSE content_map
                    ELSE MapInsert(content_map, fc.name, <<page>>) :
               fc \in { FirstComponent(route) } })

RECURSIVE ContentMapLoop(_, _, _, _, _)
\* the loop over all_documents_by_route.iter(), which visits the keys in
\* the order the HashMap yields them (order), from position i on
ContentMapLoop(content_map, page_route, snapshot, order, i) ==
    IF i > Len(order) THEN content_map
    ELSE The({ ContentMapLoop(m, page_route, snapshot, order, i + 1) :
               m \in { ContentMapStep(content_map, page_route, order[i],
                                      snapshot[order[i]]) } })

RECURSIVE InsertSorted(_, _)
\* p put into a list already sorted by published descending, after every
\* element that does not compare greater (the sort is stable)
InsertSorted(sorted, p) ==
    IF sorted = << >> THEN <<p>>
    ELSE IF OptionStringLess(sorted[1].meta.published, p.meta.published)
         THEN <<p>> \o sorted
         ELSE <<sorted[1]>> \o InsertSorted(Tail(sorted), p)

RECURSIVE SortByPublished(_)
\* content.sort_by(|a, b| b.meta.published.cmp(&a.meta.published))
SortByPublished(pages) ==
    IF pages = << >> THEN << >>
    ELSE The({ InsertSorted(front, pages[Len(pages)]) :
               front \in { SortByPublished(SubSeq(pages, 1, Len(pages) - 1)) } })

\* a mutant: pages whose emit flag is false are left out of the buckets
LiquidGlobalsNew_SkipNoEmit(doc, snapshot, order) ==
    LET page_globals == PageFrom(doc)
        keep == {i \in 1..Len(order) : snapshot[order[i]].meta.emit}
        content_map == ContentMapLoop(<< >>, page_globals.route, snapshot,
                                      SelectIdx(order, keep, 1), 1)
    IN  [page |-> page_globals,
         content |-> [k \in DOMAIN content_map |-> SortByPublished(content_map[k])]]

\* LiquidGlobals::new(page, all_documents_by_route, site_config), the
\* HashMap yielding its keys in the order order
LiquidGlobalsNew(doc, snapshot, order) ==
    The({ The({ [page |-> page_globals,
                 content |-> [k \in DOMAIN content_map |->
                                 SortByPublished(content_map[k])]] :
                content_map \in { ContentMapLoop(<< >>, page_globals.route,
                                                 sn, ord, 1) } }) :
          page_globals \in { PageFrom(doc) }, sn \in { snapshot }, ord \in { order } })

(***************************************************************************)
(* lib.rs: the content snapshot                                            *)
(***************************************************************************)
RECURSIVE SnapshotLoop(_, _, _, _)
\* Weaver::build, lib.rs:238-260: one (route, page) pair per document, the
\* route taken from the configured content directory, inserted in the
\* order of self.documents
SnapshotLoop(map, content_dir, documents, i) ==
    IF i > Len(documents) THEN map
    ELSE The({ SnapshotLoop(m, content_dir, documents, i + 1) :
               m \in { MapInsert(map,
                          route_from_path(content_dir, documents[i].at_path).route,
                          PageFrom(documents[i])) } })

\* all_liquid_pages_map
BuildSnapshot(content_dir, documents) ==
    The({ SnapshotLoop(<< >>, content_dir, docs, 1) : docs \in { documents } })

(***************************************************************************)
(* The inputs route_from_path is applied to                                *)
(***************************************************************************)
\* content roots: WeaverConfig's "{base_dir}/content" for a relative and an
\* absolute base directory
ContentDirs == { <<"content">>, <<"/", "srv", "/", "content">> }

DirNames == { <<"blog">>, <<"index">>, <<"a", ".", "b">> }

\* what the glob "{content_dir}/**/*.md" can yield as a file name
FileNames == { <<"index", ".", "md">>, <<"post1", ".", "md">>,
               <<"blog", ".", "md">>, <<"a", ".", "b", ".", "md">>,
               <<".", "md">> }

\* the sequences of at most n directory names
DirSeqs(n) == UNION { [1..k -> DirNames] : k \in 0..n }

\* root/d1/.../dk/file
PathOf(root, dirs, file) == JoinWith(<<root>> \o dirs \o <<file>>, "/")

InsidePaths(root) ==
    { PathOf(root, d, f) : d \in DirSeqs(MaxDepth), f \in FileNames }

\* paths that are under no content root: the relative path of the
\* repository's own test, and the at_path of Document::default()
StrayPaths == { <<"madeup", "/", "blog", "/", "post1", ".", "md">>, << >> }

AllPaths == UNION { InsidePaths(r) : r \in ContentDirs } \cup StrayPaths

InitRoute ==
    /\ IdleLocks
    /\ IdleReload
    /\ IdleServe
    /\ IdleWatch
    /\ IdleGlobals
    /\ IdleBuild
    /\ IdleSort
    /\ rtContentDir \in ContentDirs
    /\ rtPath \in AllPaths
    /\ rtPc = "call"
    /\ rtResult = << >>

\* one call of route_from_path
RouteCall ==
    /\ rtPc = "call"
    /\ \E r \in { route_from_path(rtContentDir, rtPath) } :
          /\ rtPc' = r.outcome
          /\ rtResult' = r.route
    /\ UNCHANGED <<rtContentDir, rtPath, globalsVars, buildVars, sortVars, watchVars, reloadVars, serveVars, lockVars>>

NextRoute == RouteCall

SpecRoute == InitRoute /\ [][NextRoute]_vars

(***************************************************************************)
(* Claims about route_from_path, checked under SpecRoute                   *)
(***************************************************************************)
\* the path handed to the call lies inside the content root handed to it
PathInsideRoot == rtPath \in InsidePaths(rtContentDir)

\* C7: for every content path inside the content root, the route returned
\* begins with "/" and ends with "/", and "/" is the only route of length 1.
C7_RouteSlashes ==
    (rtPc = "returned" /\ PathInsideRoot) =>
        /\ Len(rtResult) >= 1
        /\ rtResult[1] = "/"
        /\ rtResult[Len(rtResult)] = "/"
        /\ (Len(rtResult) = 1 => rtResult = <<"/">>)

\* C7 witness: a call on a path inside the root returned a route longer
\* than the root route.
C7_Witness ==
    rtPc = "returned" /\ PathInsideRoot /\ Len(rtResult) > 1

\* The reference derivation of the specification: the path below the root
\* is cut into its segments, a final segment whose stem is "index" is
\* dropped and any other final segment is replaced by its stem, and the
\* segments are written "/s1/s2/.../sn/" ("/" when none is left).
RefStem(file) ==
    IF \E i \in 2..Len(file) : file[i] = "."
    THEN SubSeq(file, 1, (CHOOSE i \in 2..Len(file) :
                    file[i] = "." /\ \A j \in (i + 1)..Len(file) : file[j] # ".") - 1)
    ELSE file

RECURSIVE RefWrite(_)
RefWrite(segs) ==
    IF segs = << >> THEN << >> ELSE segs[1] \o <<"/">> \o RefWrite(Tail(segs))

RefRoute(dirs, file) ==
    <<"/">> \o RefWrite(IF RefStem(file) = <<"index">> THEN dirs
                        ELSE dirs \o <<RefStem(file)>>)

\* the three parts of C8 on the call of the current state
C8_Reference ==
    \A d \in DirSeqs(MaxDepth), f \in FileNames :
        rtPath = PathOf(rtContentDir, d, f) => rtResult = RefRoute(d, f)

C8_Examples ==
    /\ rtPath = PathOf(rtContentDir, <<<<"blog">>>>, <<"post1", ".", "md">>)
          => rtResult = <<"/", "blog", "/", "post1", "/">>
    /\ rtPath = PathOf(rtContentDir, << >>, <<"index", ".", "md">>)
          => rtResult = <<"/">>

\* d/index.md against d.md, for the directories d of the set covered
C8_IndexLikeSibling(covered) ==
    \A d \in covered :
        (d # << >>
            /\ rtPath = PathOf(rtContentDir, d, <<"index", ".", "md">>)) =>
          rtResult = route_from_path(rtContentDir,
                        PathOf(rtContentDir, SubSeq(d, 1, Len(d) - 1),
                               d[Len(d)] \o <<".", "md">>)).route

\* C8 (as stated): route_from_path equals the reference derivation, maps
\* c/blog/post1.md to "/blog/post1/" and c/index.md to "/", and for EVERY
\* directory d gives d/index.md the route of d.md.
C8_Original ==
    rtPc = "returned" =>
        /\ C8_Reference
        /\ C8_Examples
        /\ C8_IndexLikeSibling(DirSeqs(MaxDepth))

\* C8 (amended): as C8, the last part for every directory d that is not
\* itself named "index".
C8_RouteDerivation ==
    rtPc = "returned" =>
        /\ C8_Reference
        /\ C8_Examples
        /\ C8_IndexLikeSibling({d \in DirSeqs(MaxDepth) :
                                    d # << >> /\ d[Len(d)] # <<"index">>})

\* C8 witness: the call was made on d/index.md for a directory d below the
\* root that is not named "index", and returned d's route.
C8_Witness ==
    /\ rtPc = "returned"
    /\ \E d \in DirSeqs(MaxDepth) :
          /\ d # << >> /\ d[Len(d)] # <<"index">>
          /\ rtPath = PathOf(rtContentDir, d, <<"index", ".", "md">>)
          /\ rtResult = RefRoute(d, <<"index", ".", "md">>)

\* C9 (as stated): a call with a path that is not inside the content root
\* fails loudly and returns no route string.
C9_OutsideFailsLoudly ==
    (rtPc # "call" /\ ~PathInsideRoot) => rtPc = "panicked"

(***************************************************************************)
(* The sites LiquidGlobals::new and Weaver::build are applied to           *)
(***************************************************************************)
\* config.content_dir
SiteContentDir == <<"content">>

\* the content files a site may hold, below the content directory, in the
\* order in which the glob yields them: about.md, index.md, posts/a.md,
\* posts/index.md, posts.md; the body of about.md holds a Liquid output tag,
\* that of index.md a Liquid tag no parser knows, the others are plain
\* text; tags is the tag list the frontmatter of the file declares
SiteFiles ==
    << [dirs |-> << >>,            file |-> <<"about", ".", "md">>,
        body |-> <<"{{", "page", ".", "title", "}}">>,
        tags |-> <<"me">>],
       [dirs |-> << >>,            file |-> <<"index", ".", "md">>,
        body |-> <<"{%", "nosuch", "%}">>,
        tags |-> << >>],
       [dirs |-> <<<<"posts">>>>,  file |-> <<"a", ".", "md">>,
        body |-> <<"text">>,
        tags |-> <<"rust", "notes">>],
       [dirs |-> <<<<"posts">>>>,  file |-> <<"index", ".", "md">>,
        body |-> <<"list">>,
        tags |-> << >>],
       [dirs |-> << >>,            file |-> <<"posts", ".", "md">>,
        body |-> <<"old">>,
        tags |-> << >>] >>

\* the published value of a frontmatter: a date the parser accepts, which
\* denotes the instant at; a text it rejects; or none, at being then the
\* instant at which the file was created
DateInput(at) == [kind |-> "date", at |-> at]

TextInput == [kind |-> "text", at |-> 0]

MissingInput(at) == [kind |-> "missing", at |-> at]

\* the frontmatter of a content file: it deserializes or not; when it does
\* it gives the emit flag and the published string
FrontMatters ==
    { [ok |-> FALSE, emit |-> TRUE, published |-> MissingInput(1),
       template |-> <<"default">>] }
    \cup [ok : {TRUE}, emit : BOOLEAN,
          published : { DateInput(at) : at \in 1..MaxStamp },
          template : { <<"default">> }]

\* lib.rs:118-121: the document Document::new_from_path returns for the
\* file SiteFiles[f] with frontmatter fm
LoadedDocument(f, fm) ==
    NewFromPath(SiteContentDir,
                PathOf(SiteContentDir, SiteFiles[f].dirs, SiteFiles[f].file),
                [ok |-> fm.ok, emit |-> fm.emit, published |-> fm.published,
                 title |-> SiteFiles[f].file, template |-> fm.template,
                 tags |-> SiteFiles[f].tags],
                SiteFiles[f].body)

\* lib.rs:123, self.tags.append(&mut doc.metadata.tags): Vec::append moves
\* every element of the document's tag list into self.tags and leaves the
\* list of the document empty
AppendTags(tags, doc) ==
    [tags |-> tags \o doc.metadata.tags,
     doc  |-> [doc EXCEPT !.metadata.tags = << >>]]

\* Weaver::scan_content (lib.rs:112-139) for the file SiteFiles[f] with
\* frontmatter fm: the document pushed to self.documents
ScanDocument(f, fm) ==
    The({ AppendTags(<< >>, doc).doc : doc \in { LoadedDocument(f, fm) } })

RECURSIVE ScanLoop(_, _, _)
\* the documents of the site whose files are the set files, with
\* frontmatters fms, in glob order from file f on
ScanLoop(files, fms, f) ==
    IF f > Len(SiteFiles) THEN << >>
    ELSE (IF f \in files THEN <<ScanDocument(f, fms[f])>> ELSE << >>)
         \o ScanLoop(files, fms, f + 1)

\* every site of at most MaxDocs documents whose frontmatters are in fmset
SitesOf(fmset) ==
    UNION { { ScanLoop(files, fms, 1) : fms \in [files -> fmset] } :
            files \in { F \in SUBSET (1..Len(SiteFiles)) :
                            F # {} /\ Cardinality(F) <= MaxDocs } }

Sites == SitesOf(FrontMatters)

\* the orders in which a HashMap with the keys of set keys can yield them
Orders(keys) ==
    UNION { { o \in [1..n -> ks] : \A i, j \in 1..n : i # j => o[i] # o[j] } :
            ks \in { keys }, n \in { Cardinality(keys) } }

\* the document a page index stands for
DocOf(docs, page) == IF page = 0 THEN DocumentDefault ELSE docs[page]

InitGlobals ==
    /\ IdleLocks
    /\ IdleReload
    /\ IdleServe
    /\ IdleWatch
    /\ IdleRoute
    /\ IdleBuild
    /\ IdleSort
    /\ glDocs \in Sites
    /\ glPage \in 0..Len(glDocs)
    /\ glOrder \in Orders(DOMAIN BuildSnapshot(SiteContentDir, glDocs))
    /\ glPc = "call"
    /\ glGlobals = << >>

\* one call of LiquidGlobals::new on the snapshot of the site
GlobalsCall ==
    /\ glPc = "call"
    /\ \E snapshot \in { BuildSnapshot(SiteContentDir, glDocs) } :
          glGlobals' = LiquidGlobalsNew(DocOf(glDocs, glPage), snapshot, glOrder)
    /\ glPc' = "built"
    /\ UNCHANGED <<glDocs, glPage, glOrder, routeVars, buildVars, sortVars, watchVars, reloadVars, serveVars, lockVars>>

NextGlobals == GlobalsCall

SpecGlobals == InitGlobals /\ [][NextGlobals]_vars

(***************************************************************************)
(* Claims about the content graph, checked under SpecGlobals               *)
(***************************************************************************)
\* the snapshot the build makes of the site of the current state
GlSnapshot == BuildSnapshot(SiteContentDir, glDocs)

\* a document, and a page, with the emit flag set
WithEmit(doc) == [doc EXCEPT !.emit = TRUE, !.metadata.emit = TRUE]

PageWithEmit(page) == [page EXCEPT !.meta.emit = TRUE]

\* the site of the current state with every emit flag set
GlDocsEmitting == [i \in 1..Len(glDocs) |-> WithEmit(glDocs[i])]

\* the pages of all buckets of a content map
BucketPages(content) ==
    UNION { { content[k][i] : i \in 1..Len(content[k]) } : k \in DOMAIN content }

\* C4: a document with emit=false is in the route-keyed snapshot and in the
\* buckets of the other pages' Render Contexts exactly as if its emit flag
\* were true: the snapshot and the buckets built from the site are those
\* built from the same site with every emit flag set, up to that flag, and
\* an emit=false document holds the snapshot entry of its route (unless a
\* later document has the same route).
C4_EmitFalseStillLinked ==
    glPc = "built" =>
        LET snapT == BuildSnapshot(SiteContentDir, GlDocsEmitting)
            ctxT  == LiquidGlobalsNew(WithEmit(DocOf(glDocs, glPage)), snapT, glOrder)
            Key(i) == route_from_path(SiteContentDir, glDocs[i].at_path).route
        IN  /\ DOMAIN GlSnapshot = DOMAIN snapT
            /\ \A k \in DOMAIN snapT : PageWithEmit(GlSnapshot[k]) = snapT[k]
            /\ \A i \in 1..Len(glDocs) :
                  (~glDocs[i].emit /\ \A j \in (i + 1)..Len(glDocs) : Key(j) # Key(i))
                      => /\ Key(i) \in DOMAIN GlSnapshot
                         /\ GlSnapshot[Key(i)] = PageFrom(glDocs[i])
            /\ DOMAIN glGlobals.content = DOMAIN ctxT.content
            /\ \A k \in DOMAIN ctxT.content :
                  [i \in 1..Len(glGlobals.content[k]) |->
                        PageWithEmit(glGlobals.content[k][i])] = ctxT.content[k]

\* C4 witness: the context of one page holds, in a bucket, another page of
\* the site whose frontmatter says emit: false.
C4_Witness ==
    /\ glPc = "built"
    /\ glPage # 0
    /\ \E i \in 1..Len(glDocs) :
          /\ i # glPage
          /\ ~glDocs[i].emit /\ ~glDocs[i].metadata.emit
          /\ PageFrom(glDocs[i]) \in BucketPages(glGlobals.content)

\* C10 (as stated): for every page P of the site, default documents
\* included, no bucket of the Render Context built for P holds a page whose
\* route is P's route.
C10_NoSelfInBuckets ==
    (glPc = "built" /\ glPage # 0) =>
        \A p \in BucketPages(glGlobals.content) : p.route # glGlobals.page.route

(***************************************************************************)
(* config.rs: the directories of the site                                  *)
(***************************************************************************)
\* config.build_dir and config.public_dir
SiteBuildDir == <<"site">>

SitePublicDir == <<"public">>

\* what the public directory holds when it exists
PublicFiles == { <<"style", ".", "css">> }

\* what the .well-known directory of the site holds when it exists
WellKnownFiles == { <<"security", ".", "txt">> }

(***************************************************************************)
(* renderers/mod.rs: the render task of one document                       *)
(***************************************************************************)
\* Path::ends_with: the components of child are the last components of p
PathEndsWith(p, child) ==
    \E pc \in { Components(p) }, cc \in { Components(child) } :
        /\ Len(cc) <= Len(pc)
        /\ SubSeq(pc, Len(pc) - Len(cc) + 1, Len(pc)) = cc

\* MarkdownRenderer::find_template_by_string: the position of the first
\* template whose path ends with "{name}.liquid", 0 for None
FindTemplateByString(templates, template_name) ==
    The({ IF hits = {} THEN 0 ELSE CHOOSE i \in hits : \A j \in hits : i <= j :
          hits \in { { i \in 1..Len(templates) :
                         PathEndsWith(templates[i].at_path,
                                      template_name \o <<".", "liquid">>) } } })

\* markdown::to_html_with_options
MarkdownHtml(markdown) == <<"html">> \o markdown

\* a mutant: the build directory and the route are joined with a "/"
OutPathForDocument_SlashJoined(document) ==
    Concat(<< SiteBuildDir, <<"/">>,
              route_from_path(SiteContentDir, document.at_path).route,
              <<"index", ".", "html">> >>)

\* out_path_for_document: "{build_dir}{route}index.html"
OutPathForDocument(document) ==
    Concat(<< SiteBuildDir,
              route_from_path(SiteContentDir, document.at_path).route,
              <<"index", ".", "html">> >>)

\* what a JoinHandle of the list tasks yields: Ok(Ok(Some(file))) is "File",
\* Ok(Ok(None)) is "None", Ok(Err(e)) is "Err" and Err(join_error), the
\* task having panicked, is "Panic"
NoFile == [path |-> << >>, contents |-> << >>, emit |-> FALSE]

ResultFile(file) == [kind |-> "File", file |-> file, err |-> << >>]

ResultNone == [kind |-> "None", file |-> NoFile, err |-> << >>]

ResultErr(origin) ==
    [kind |-> "Err", file |-> NoFile, err |-> [type |-> "Err", origin |-> origin]]

ResultPanic(origin) ==
    [kind |-> "Panic", file |-> NoFile,
     err |-> [type |-> "JoinError", origin |-> origin]]

\* the emit flag of the Writable Output of a document: that of the document
WritableEmit(document) == document.emit

\* TemplateRenderer::render: the template rendered with the data, into the
\* output file of the document, or the error of the template engine
TemplateRender(template, document, data) ==
    IF template.renders
    THEN ResultFile([path |-> OutPathForDocument(document),
                     contents |-> [template |-> template.at_path, data |-> data],
                     emit |-> WritableEmit(document)])
    ELSE ResultErr(document.at_path)

\* the document as MarkdownRenderer::render leaves it: its table of contents
\* is computed again
RenderedDocument(document) == [document EXCEPT !.toc = TocOf(document.markdown)]

\* MarkdownRenderer::render on the locked document with the LiquidGlobals of
\* its task: a panic when no template has the name the document asks for
MarkdownRender(document, templates, data) ==
    The({ IF t = 0 THEN ResultPanic(document.at_path)
          ELSE TemplateRender(templates[t], RenderedDocument(document),
                    [data EXCEPT !.page.body = MarkdownHtml(document.markdown)]) :
          t \in { FindTemplateByString(templates, document.metadata.template) } })

(***************************************************************************)
(* tasks/*.rs: the side-effect tasks                                       *)
(***************************************************************************)
\* the tasks registered by Weaver::new (lib.rs:103-108), in their order
SideTasks == <<"PublicCopyTask", "WellKnownCopyTask", "SiteMapTask", "AtomFeedTask">>

\* copy_dir_all(src, dst): the directory dst is made, then the entries of
\* src are read and copied one by one; each step is unwrapped, so the task
\* panics when src cannot be read or a copy fails, after what it has written
CopyDirAll(src_exists, dst, copy_fails) ==
    IF ~src_exists \/ copy_fails
    THEN [result |-> ResultPanic(dst), writes |-> { dst }]
    ELSE [result |-> ResultNone,
          writes |-> { dst } \cup { dst \o <<"/">> \o f : f \in PublicFiles }]

\* PublicCopyTask::run: "{build_dir}/{last segment of public_dir}"
PublicCopyRun(env) ==
    The({ IF env.public
          THEN CopyDirAll(env.public, SiteBuildDir \o <<"/">> \o folder_name,
                          env.fault = "copy_io")
          ELSE [result |-> ResultNone, writes |-> {}] :
          folder_name \in { The({ segs[Len(segs)] :
                                  segs \in { SplitOn(SitePublicDir, "/") } }) } })

\* WellKnownCopyTask::run: the existence of "{base_dir}/.well-known" is
\* checked and config.public_dir is copied to "{build_dir}/.well-known"
WellKnownCopyRun(env) ==
    IF env.wellKnown
    THEN CopyDirAll(env.public, SiteBuildDir \o <<"/", ".", "well-known">>,
                    env.fault = "copy_io")
    ELSE [result |-> ResultNone, writes |-> {}]

\* SiteMapTask::run and AtomFeedTask::run: the bundled template name is
\* rendered with the LiquidGlobals of a fresh Document::default() into
\* "{build_dir}/{name}"
FeedRun(name, snapshot, order, render_fails) ==
    IF render_fails
    THEN [result |-> ResultErr(name), writes |-> {}]
    ELSE The({ [result |->
                   ResultFile([path |-> SiteBuildDir \o <<"/">> \o name,
                               contents |-> [template |-> name \o <<".", "liquid">>,
                                             data |-> globals],
                               emit |-> TRUE]),
                writes |-> {}] :
               globals \in { LiquidGlobalsNew(DocumentDefault, snapshot, order) } })

\* t.run(config, &content) of the side-effect task named name
SideTaskRun(name, snapshot, order, env) ==
    CASE name = "PublicCopyTask"    -> PublicCopyRun(env)
      [] name = "WellKnownCopyTask" -> WellKnownCopyRun(env)
      [] name = "SiteMapTask" ->
            FeedRun(<<"sitemap", ".", "xml">>, snapshot, order,
                    env.fault = "sitemap_render")
      [] name = "AtomFeedTask" ->
            FeedRun(<<"atom", ".", "xml">>, snapshot, order,
                    env.fault = "feed_render")

(***************************************************************************)
(* The sites and surroundings Weaver::build is applied to                  *)
(***************************************************************************)
\* the frontmatters of the built sites: one that does not deserialize, and
\* ones that ask for a template that renders, with either emit flag, for a
\* template whose rendering fails and for a template that does not exist
BuildFrontMatters ==
    { [ok |-> FALSE, emit |-> TRUE, published |-> MissingInput(1),
       template |-> <<"default">>],
      [ok |-> TRUE, emit |-> TRUE, published |-> DateInput(1),
       template |-> <<"default">>],
      [ok |-> TRUE, emit |-> FALSE, published |-> DateInput(1),
       template |-> <<"default">>],
      [ok |-> TRUE, emit |-> TRUE, published |-> DateInput(1),
       template |-> <<"broken">>],
      [ok |-> TRUE, emit |-> TRUE, published |-> DateInput(1),
       template |-> <<"nosuch">>] }

\* the built sites: the first k content files, k at most MaxDocs, with every
\* choice of these frontmatters
BuildSites ==
    UNION { { ScanLoop(1..k, fms, 1) : fms \in [1..k -> BuildFrontMatters] } :
            k \in { n \in 1..MaxDocs : n <= Len(SiteFiles) } }

\* self.templates after scan_templates: default.liquid renders, the
\* rendering of broken.liquid fails in the template engine
SiteTemplates ==
    << [at_path |-> <<"templates", "/", "broken", ".", "liquid">>, renders |-> FALSE],
       [at_path |-> <<"templates", "/", "default", ".", "liquid">>, renders |-> TRUE] >>

\* what can fail around one build: a copy of a public file, the rendering
\* of a bundled feed template, the writing of an output file
Faults == { "none", "copy_io", "sitemap_render", "feed_render", "write_io" }

\* whether the public and .well-known directories exist, and what fails:
\* every combination of the directories when nothing fails, and each failure
\* with a public directory to copy
BuildEnvs ==
    [public : BOOLEAN, wellKnown : BOOLEAN, fault : { "none" }]
    \cup [public : { TRUE }, wellKnown : { FALSE }, fault : Faults]

\* the orders in which the snapshot HashMap of a built site yields its keys:
\* the order in which the keys were inserted, and its reverse
BuildOrders(documents) ==
    The({ The({ { fwd, [i \in 1..Len(fwd) |-> fwd[Len(fwd) + 1 - i]] } :
                fwd \in { SelectIdx(keys, { i \in 1..Len(keys) :
                                               \A j \in 1..(i - 1) : keys[j] # keys[i] },
                                    1) } }) :
          keys \in { [i \in 1..Len(documents) |->
                        route_from_path(SiteContentDir, documents[i].at_path).route] } })

\* the tasks of the list tasks of a build of n documents: the render tasks
\* of the documents, then the side-effect tasks
TaskIds(n) == 1..(n + Len(SideTasks))

InitBuild ==
    /\ IdleLocks
    /\ IdleReload
    /\ IdleServe
    /\ IdleWatch
    /\ IdleRoute
    /\ IdleGlobals
    /\ IdleSort
    /\ bScan \in BuildSites
    /\ bTemplates = SiteTemplates
    /\ bEnv \in BuildEnvs
    /\ bOrder \in BuildOrders(bScan)
    /\ bDocs = bScan
    /\ bPc = "convert"
    /\ bIdx = 0
    /\ bSnapshot = << >>
    /\ bGlobals = << >>
    /\ bStatus = [t \in TaskIds(Len(bScan)) |-> "unspawned"]
    /\ bResult = [t \in TaskIds(Len(bScan)) |-> ResultNone]
    /\ bDisk = {}
    /\ bReturn = << >>

(***************************************************************************)
(* lib.rs: Weaver::build                                                   *)
(***************************************************************************)
NumDocs == Len(bScan)

\* a mutant: the render task of document i assigns its table of contents to
\* every document
DocsAfterRender_SharedToc(docs, i) ==
    [j \in DOMAIN docs |-> [docs[j] EXCEPT !.toc = <<"toc">> \o docs[i].markdown]]

\* the documents after the render task of document i has held its lock
DocsAfterRender(docs, i) == [docs EXCEPT ![i] = RenderedDocument(docs[i])]

\* a mutant: the emit flag of an output is not looked at
ShouldWrite_IgnoreEmit(file) == file.path # << >>

\* lib.rs:318: an output is written when its path is not empty and its emit
\* flag is set
ShouldWrite(file) == file.path # << >> /\ file.emit

\* Weaver::write_result_to_system: the file is written, or an IoError
WriteResultToSystem(file, write_fails) ==
    IF write_fails
    THEN [ok |-> FALSE, err |-> [type |-> "IoError", origin |-> file.path]]
    ELSE [ok |-> TRUE, err |-> << >>]

\* lib.rs:238-262: the convert tasks are spawned and joined, and their
\* (route, page) pairs are put into the snapshot in the order of the documents
Convert ==
    /\ bPc = "convert"
    /\ bSnapshot' = BuildSnapshot(SiteContentDir, bDocs)
    /\ bPc' = "fanout"
    /\ bIdx' = 1
    /\ UNCHANGED <<bScan, bTemplates, bEnv, bOrder, bDocs, bGlobals, bStatus,
                   bResult, bDisk, bReturn, routeVars, globalsVars, sortVars, watchVars, reloadVars, serveVars, lockVars>>

\* lib.rs:275-299: the coordinator builds the LiquidGlobals of the next
\* document and spawns its render task
FanOut ==
    /\ bPc = "fanout"
    /\ bIdx <= NumDocs
    /\ \E globals \in { LiquidGlobalsNew(bDocs[bIdx], bSnapshot, bOrder) } :
          bGlobals' = Append(bGlobals, globals)
    /\ bStatus' = [bStatus EXCEPT ![bIdx] = "running"]
    /\ bIdx' = bIdx + 1
    /\ UNCHANGED <<bScan, bTemplates, bEnv, bOrder, bDocs, bPc, bSnapshot,
                   bResult, bDisk, bReturn, routeVars, globalsVars, sortVars, watchVars, reloadVars, serveVars, lockVars>>

\* lib.rs:301-306: the side-effect tasks are spawned, in their order
SpawnSideTasks ==
    /\ bPc = "fanout"
    /\ bIdx > NumDocs
    /\ bStatus' = [t \in DOMAIN bStatus |->
                      IF t > NumDocs THEN "running" ELSE bStatus[t]]
    /\ bPc' = "join"
    /\ UNCHANGED <<bScan, bTemplates, bEnv, bOrder, bDocs, bIdx, bSnapshot,
                   bGlobals, bResult, bDisk, bReturn, routeVars, globalsVars, sortVars, watchVars, reloadVars, serveVars, lockVars>>

\* the render task of document i runs (lib.rs:291-296): when it panics the
\* document is as it was, its table of contents not yet assigned
RenderTask(i) ==
    /\ bStatus[i] = "running"
    /\ \E r \in { MarkdownRender(bDocs[i], bTemplates, bGlobals[i]) } :
          /\ bResult' = [bResult EXCEPT ![i] = r]
          /\ bDocs' = IF r.kind = "Panic" THEN bDocs ELSE DocsAfterRender(bDocs, i)
    /\ bStatus' = [bStatus EXCEPT ![i] = "done"]
    /\ UNCHANGED <<bScan, bTemplates, bEnv, bOrder, bPc, bIdx, bSnapshot,
                   bGlobals, bDisk, bReturn, routeVars, globalsVars, sortVars, watchVars, reloadVars, serveVars, lockVars>>

\* the side-effect task k runs (lib.rs:305); what a copy task copies it
\* writes below build_dir itself
SideTask(k) ==
    /\ bStatus[NumDocs + k] = "running"
    /\ \E r \in { SideTaskRun(SideTasks[k], bSnapshot, bOrder, bEnv) } :
          /\ bResult' = [bResult EXCEPT ![NumDocs + k] = r.result]
          /\ bDisk' = bDisk \cup { [path |-> w, by |-> NumDocs + k] : w \in r.writes }
    /\ bStatus' = [bStatus EXCEPT ![NumDocs + k] = "done"]
    /\ UNCHANGED <<bScan, bTemplates, bEnv, bOrder, bDocs, bPc, bIdx, bSnapshot,
                   bGlobals, bReturn, routeVars, globalsVars, sortVars, watchVars, reloadVars, serveVars, lockVars>>

\* lib.rs:308-310: join_all(tasks).await returns when every task is done
Join ==
    /\ bPc = "join"
    /\ \A t \in DOMAIN bStatus : bStatus[t] = "done"
    /\ bPc' = "results"
    /\ bIdx' = 1
    /\ UNCHANGED <<bScan, bTemplates, bEnv, bOrder, bDocs, bSnapshot, bGlobals,
                   bStatus, bResult, bDisk, bReturn, routeVars, globalsVars, sortVars, watchVars, reloadVars, serveVars, lockVars>>

\* lib.rs:313-334: the next result of the list is matched: a file that is
\* to be written is written, and a failed write returns its IoError; None
\* is passed over; an error or a panic is returned at once
ProcessResult ==
    /\ bPc = "results"
    /\ bIdx <= NumDocs + Len(SideTasks)
    /\ \E r \in { bResult[bIdx] } :
          IF r.kind = "File" /\ ShouldWrite(r.file)
          THEN \E w \in { WriteResultToSystem(r.file, bEnv.fault = "write_io") } :
                  IF w.ok
                  THEN /\ bDisk' = bDisk \cup { [path |-> r.file.path, by |-> bIdx] }
                       /\ bIdx' = bIdx + 1
                       /\ UNCHANGED <<bPc, bReturn>>
                  ELSE /\ bReturn' = w
                       /\ bPc' = "returned"
                       /\ UNCHANGED <<bDisk, bIdx>>
          ELSE IF r.kind \in { "File", "None" }
          THEN /\ bIdx' = bIdx + 1
               /\ UNCHANGED <<bPc, bReturn, bDisk>>
          ELSE /\ bReturn' = [ok |-> FALSE, err |-> r.err]
               /\ bPc' = "returned"
               /\ UNCHANGED <<bDisk, bIdx>>
    /\ UNCHANGED <<bScan, bTemplates, bEnv, bOrder, bDocs, bSnapshot, bGlobals,
                   bStatus, bResult, routeVars, globalsVars, sortVars, watchVars, reloadVars, serveVars, lockVars>>

\* lib.rs:336: every result has been processed
Finish ==
    /\ bPc = "results"
    /\ bIdx > NumDocs + Len(SideTasks)
    /\ bReturn' = [ok |-> TRUE, err |-> << >>]
    /\ bPc' = "returned"
    /\ UNCHANGED <<bScan, bTemplates, bEnv, bOrder, bDocs, bIdx, bSnapshot,
                   bGlobals, bStatus, bResult, bDisk, routeVars, globalsVars, sortVars, watchVars, reloadVars, serveVars, lockVars>>

NextBuild ==
    \/ Convert
    \/ FanOut
    \/ SpawnSideTasks
    \/ \E i \in 1..NumDocs : RenderTask(i)
    \/ \E k \in 1..Len(SideTasks) : SideTask(k)
    \/ Join
    \/ ProcessResult
    \/ Finish

SpecBuild == InitBuild /\ [][NextBuild]_vars

(***************************************************************************)
(* Claims about Weaver::build, checked under SpecBuild                     *)
(***************************************************************************)
AllTasks == DOMAIN bStatus

AllTasksDone == \A t \in AllTasks : bStatus[t] = "done"

\* a task has failed: it returned an error or it panicked
Failed(t) == bStatus[t] = "done" /\ bResult[t].kind \in { "Err", "Panic" }

\* the tasks whose output, or whose copy, is on the disk
Writers == { e.by : e \in bDisk }

\* C1 (as stated): nothing is written below the build directory until every
\* render task and every side-effect task of the build has completed.
C1_NoWriteBeforeAllDone == bDisk # {} => AllTasksDone

\* C2 (as stated): when a render or side-effect task of the build has
\* failed, the build returns an error and nothing has been written to the
\* disk during the build.
C2_FailureWritesNothing ==
    (bPc = "returned" /\ \E t \in AllTasks : Failed(t))
        => (~bReturn.ok /\ bDisk = {})

\* C3: a document whose emit flag is false is rendered all the same (its
\* task is spawned with the others and, once done, has yielded an output
\* file), and that output is never written to the disk.
C3_NoEmitNeverWritten ==
    \A i \in 1..NumDocs :
        ~bScan[i].emit =>
            /\ i \notin Writers
            /\ bPc \in { "join", "results", "returned" } => bStatus[i] # "unspawned"
            /\ bPc \in { "results", "returned" } => bStatus[i] = "done"
            /\ bStatus[i] = "done" =>
                  /\ bResult[i].kind = "File"
                  /\ bResult[i].file.path = OutPathForDocument(bScan[i])
                  /\ bResult[i].file.contents.data.page.body
                        = MarkdownHtml(bScan[i].markdown)

\* C3 witness: a build has returned Ok, a document read from a file with
\* emit: false was rendered into an output file that is not on the disk,
\* and the output of another document is.
C3_Witness ==
    /\ bPc = "returned" /\ bReturn.ok
    /\ \E i, j \in 1..NumDocs :
          /\ ~bScan[i].emit /\ bScan[i].at_path # << >>
          /\ bResult[i].kind = "File" /\ i \notin Writers
          /\ j \in Writers

\* the first task of the list that failed
FirstFailed == CHOOSE t \in AllTasks : Failed(t) /\ \A u \in AllTasks : Failed(u) => t <= u

\* C5 (as stated): the results are inspected only when every spawned task
\* has finished, no task is ever cancelled, and a build in which a task has
\* failed returns the error of the first failed task of the list.
C5_JoinThenFirstError ==
    /\ bPc \in { "results", "returned" } => AllTasksDone
    /\ \A t \in AllTasks : bStatus[t] \in { "unspawned", "running", "done" }
    /\ (bPc = "returned" /\ \E t \in AllTasks : Failed(t))
          => bReturn = [ok |-> FALSE, err |-> bResult[FirstFailed].err]

\* what the step to the next state may do to the snapshot, the LiquidGlobals
\* and the results when no part of a build depends on the interleaving: the
\* snapshot is made from the scanned documents and then stays as it is; the
\* LiquidGlobals built for a render task are those of its scanned document
\* and the snapshot, and stay as built; what a task yields when it finishes
\* is what its own inputs determine, and stays as yielded
IndependentStep ==
    /\ bSnapshot' = IF bPc = "convert" THEN BuildSnapshot(SiteContentDir, bScan)
                    ELSE bSnapshot
    /\ Len(bGlobals') >= Len(bGlobals)
    /\ \A i \in 1..Len(bGlobals') :
          bGlobals'[i] = IF i <= Len(bGlobals) THEN bGlobals[i]
                         ELSE LiquidGlobalsNew(bScan[i], bSnapshot, bOrder)
    /\ \A i \in 1..NumDocs :
          bStatus'[i] = "done" =>
              bResult'[i] = IF bStatus[i] = "done" THEN bResult[i]
                            ELSE MarkdownRender(bScan[i], bTemplates, bGlobals[i])
    /\ \A k \in 1..Len(SideTasks) :
          bStatus'[NumDocs + k] = "done" =>
              bResult'[NumDocs + k] =
                  IF bStatus[NumDocs + k] = "done" THEN bResult[NumDocs + k]
                  ELSE SideTaskRun(SideTasks[k], bSnapshot, bOrder, bEnv).result

\* C6: in every build, under every interleaving of the render and
\* side-effect tasks, the snapshot is not modified after its construction,
\* the Render Context of each render task is the one its scanned document,
\* the snapshot and the map's order determine, and each task yields the
\* output its own inputs determine, whatever the other tasks have done.
C6_InterleavingIndependent == [][IndependentStep]_vars

\* C6 witness: the tasks finish out of the order in which they were
\* spawned: a later render task and a later side-effect task are done while
\* an earlier render task and an earlier side-effect task still run.
C6_Witness ==
    /\ bPc = "join"
    /\ \E i, j \in 1..NumDocs :
          i < j /\ bStatus[i] = "running" /\ bStatus[j] = "done"
          /\ bResult[j].kind = "File"
    /\ \E k, l \in 1..Len(SideTasks) :
          k < l /\ bStatus[NumDocs + k] = "running" /\ bStatus[NumDocs + l] = "done"

\* the render task of document i has finished
RenderDone(i) == bStatus[i] = "done"

\* the position of the template document i asks for, 0 when there is none
TemplateOf(i) == FindTemplateByString(bTemplates, bScan[i].metadata.template)

\* C16 (as stated): when a document asks for a template that no scanned
\* template has the name of, its render task fails with a TemplateError, and
\* the build in which it is the first failure returns that TemplateError.
C16_MissingTemplateError ==
    \A i \in 1..NumDocs :
        (RenderDone(i) /\ TemplateOf(i) = 0) =>
            /\ bResult[i].kind = "Err"
            /\ bResult[i].err.type = "TemplateError"
            /\ (bPc = "returned" /\ FirstFailed = i)
                  => bReturn = [ok |-> FALSE, err |-> bResult[i].err]

\* the body pass of the specification: the raw body rendered as a Liquid
\* template with the Render Context; a tag the parser does not know is an
\* error, an output tag is replaced by the value it names, plain text stays
BodyPass(body, data) ==
    IF \E k \in 1..Len(body) : body[k] = "{%"
    THEN [ok |-> FALSE, text |-> << >>]
    ELSE IF body = <<"{{", "page", ".", "title", "}}">>
    THEN [ok |-> TRUE, text |-> data.page.title]
    ELSE [ok |-> TRUE, text |-> body]

\* C17 (as stated): the render of a document whose template is found goes
\* through the body pass, the markdown conversion of the body-pass result,
\* the page wrap and the output path, in this order: a failed body pass
\* yields a RenderError and nothing else; otherwise the page is wrapped
\* around the converted body-pass result and put at the output path.
C17_StagesInOrder ==
    \A i \in 1..NumDocs :
        (RenderDone(i) /\ TemplateOf(i) # 0) =>
            LET pass == BodyPass(bScan[i].markdown, bGlobals[i])
                page_template == bTemplates[TemplateOf(i)]
            IN  IF ~pass.ok
                THEN bResult[i].kind = "Err" /\ bResult[i].err.type = "RenderError"
                ELSE IF page_template.renders
                THEN /\ bResult[i].kind = "File"
                     /\ bResult[i].file.contents.template = page_template.at_path
                     /\ bResult[i].file.contents.data.page.body
                           = MarkdownHtml(pass.text)
                     /\ bResult[i].file.path = OutPathForDocument(bScan[i])
                ELSE bResult[i].kind = "Err"

\* the content file document i was read from, 0 when it is the default
\* document of a file whose frontmatter did not deserialize
FileOf(i) ==
    IF \E f \in 1..Len(SiteFiles) :
          bScan[i].at_path = PathOf(SiteContentDir, SiteFiles[f].dirs, SiteFiles[f].file)
    THEN CHOOSE f \in 1..Len(SiteFiles) :
          bScan[i].at_path = PathOf(SiteContentDir, SiteFiles[f].dirs, SiteFiles[f].file)
    ELSE 0

Occurrences(pages, p) == Cardinality({ i \in 1..Len(pages) : pages[i] = p })

\* the route of the list page of section s: "/s/"
ListRoute(s) == <<"/">> \o s \o <<"/">>

\* C11: in a Render Context every snapshot page that is not the current
\* page, whose route has a first segment and is not the list route of that
\* segment, is exactly once in the bucket keyed by that segment and in no
\* other bucket.
C11_OnceInFirstSegmentBucket ==
    glPc = "built" =>
        \A k \in DOMAIN GlSnapshot :
            LET fc == FirstComponent(k)
            IN  (k # glGlobals.page.route /\ fc.some /\ k # ListRoute(fc.name))
                    => /\ fc.name \in DOMAIN glGlobals.content
                       /\ \A b \in DOMAIN glGlobals.content :
                             Occurrences(glGlobals.content[b], GlSnapshot[k])
                                 = IF b = fc.name THEN 1 ELSE 0

\* C11 witness: the context built for the sitemap of a site with
\* content/about.md and content/posts/a.md has the page of route /posts/a/
\* in bucket posts and the page of route /about/ in bucket about.
C11_Witness ==
    /\ glPc = "built" /\ glPage = 0
    /\ <<"posts">> \in DOMAIN glGlobals.content
    /\ <<"about">> \in DOMAIN glGlobals.content
    /\ \E i \in 1..Len(glGlobals.content[<<"posts">>]) :
          glGlobals.content[<<"posts">>][i].route = <<"/", "posts", "/", "a", "/">>
    /\ \E i \in 1..Len(glGlobals.content[<<"about">>]) :
          glGlobals.content[<<"about">>][i].route = <<"/", "about", "/">>

\* C12 (as stated): for every section segment s the page whose route is
\* "/s/" is in bucket s of no Render Context.
C12_ListPageNeverInOwnBucket ==
    glPc = "built" =>
        \A s \in DOMAIN glGlobals.content :
            \A i \in 1..Len(glGlobals.content[s]) :
                glGlobals.content[s][i].route # ListRoute(s)

\* C13 (as stated): a snapshot page of route "/" that is not the current
\* page is in a bucket keyed "root".
C13_RootPageInRootBucket ==
    glPc = "built" =>
        ((<<"/">> \in DOMAIN GlSnapshot /\ glGlobals.page.route # <<"/">>)
            => /\ <<"root">> \in DOMAIN glGlobals.content
               /\ Occurrences(glGlobals.content[<<"root">>], GlSnapshot[<<"/">>]) = 1)

(***************************************************************************)
(* The sort of a bucket (globals.rs:101-107) applied to the pages of the   *)
(* documents Document::new_from_path loads                                 *)
(***************************************************************************)
\* the published values a frontmatter may have
SortInputs ==
    { DateInput(at) : at \in 1..MaxStamp }
    \cup { MissingInput(at) : at \in 1..MaxStamp }
    \cup { TextInput }

\* the files of the section posts
SectionFiles == << <<"a">>, <<"b">>, <<"c">>, <<"d">> >>

\* the document loaded from the i-th file of the section, its frontmatter
\* having the published value published
BucketDocument(i, published) ==
    NewFromPath(SiteContentDir,
                PathOf(SiteContentDir, << <<"posts">> >>,
                       SectionFiles[i] \o <<".", "md">>),
                [ok |-> TRUE, emit |-> TRUE, published |-> published,
                 title |-> SectionFiles[i], template |-> <<"default">>,
                 tags |-> << >>],
                SectionFiles[i])

InitSort ==
    /\ IdleLocks
    /\ IdleReload
    /\ IdleServe
    /\ IdleWatch
    /\ IdleRoute
    /\ IdleGlobals
    /\ IdleBuild
    /\ soInputs \in UNION { [1..n -> SortInputs] :
                            n \in { m \in 1..MaxBucket : m <= Len(SectionFiles) } }
    /\ soPc = "call"
    /\ soBucket = << >>

\* the pages of the documents are pushed to the bucket in their order and
\* the bucket is sorted
SortCall ==
    /\ soPc = "call"
    /\ \E pages \in { [i \in 1..Len(soInputs) |->
                          PageFrom(BucketDocument(i, soInputs[i]))] } :
          soBucket' = SortByPublished(pages)
    /\ soPc' = "sorted"
    /\ UNCHANGED <<soInputs, routeVars, globalsVars, buildVars, watchVars, reloadVars, serveVars, lockVars>>

NextSort == SortCall

SpecSort == InitSort /\ [][NextSort]_vars

(***************************************************************************)
(* Claims about the order of a bucket, checked under SpecSort              *)
(***************************************************************************)
\* the position a page of the bucket had before the sort
PushedAt(page) == CHOOSE i \in 1..Len(soInputs) : SectionFiles[i] = page.title

\* the instant a local date string denotes
InstantOf(published) == published.wall - published.offset

\* C14 (as stated): in a sorted bucket, of two adjacent pages that have a
\* publish timestamp the first is published at the same instant as the
\* second or later, and pages published at the same instant keep the order
\* in which they were pushed.
C14_ChronologicalStable ==
    soPc = "sorted" =>
        \A i \in 1..(Len(soBucket) - 1) :
            LET a == soBucket[i]
                b == soBucket[i + 1]
            IN  (a.meta.published.kind = "date" /\ b.meta.published.kind = "date")
                    => /\ InstantOf(a.meta.published) >= InstantOf(b.meta.published)
                       /\ InstantOf(a.meta.published) = InstantOf(b.meta.published)
                              => PushedAt(a) < PushedAt(b)

\* C15 (as stated): in a sorted bucket no page whose frontmatter has no
\* published value, or one the date parser rejects, comes before a page
\* whose frontmatter has a published value the parser accepts.
C15_UnparseableLast ==
    soPc = "sorted" =>
        \A i, j \in 1..Len(soBucket) :
            i < j => ~ /\ soInputs[PushedAt(soBucket[i])].kind # "date"
                       /\ soInputs[PushedAt(soBucket[j])].kind = "date"

(***************************************************************************)
(* main.rs: the watch loop of the serve command                            *)
(***************************************************************************)
\* the events the file system reports itself, the ticks of the clock and
\* the rebuilds of one run of the loop
MaxEvents == 2

MaxTime == 2

MaxRebuilds == 2

\* debounce_duration (main.rs:206), the unit of the clock
DebounceTicks == 1

\* the "." of a regular expression: any one character
AnyChar == "ANY"

\* Regex::is_match: the pattern is found somewhere in the text; of the
\* characters of a text, the separators are the ones written singly
IsMatch(re, text) ==
    \E i \in 1..(Len(text) - Len(re) + 1) :
        \A k \in 1..Len(re) :
            \/ re[k] = text[i + k - 1]
            \/ re[k] = AnyChar /\ text[i + k - 1] \in { "/", "." }

\* ServeConfig::default().watch_excludes: ".git", "node_modules", "site"
ServeConfigDefault ==
    [watch_excludes |-> << [re |-> <<AnyChar, "git">>, valid |-> TRUE],
                           [re |-> <<"node_modules">>, valid |-> TRUE],
                           [re |-> <<"site">>, valid |-> TRUE] >>]

\* WeaverConfig::get_merged_watch_exclude_patterns: the patterns of the
\* default serve configuration, then those of the configuration
get_merged_watch_exclude_patterns(config) ==
    ServeConfigDefault.watch_excludes \o config.serve_config.watch_excludes

\* main.rs:139-148: the patterns that compile, in their order
CompileExcludes(watch_excludes) ==
    The({ [i \in 1..Len(kept) |-> kept[i].re] :
          kept \in { SelectIdx(watch_excludes,
                               { i \in 1..Len(watch_excludes) : watch_excludes[i].valid },
                               1) } })

\* safe_path: the canonical path of the site, which is watched
WatchRoot == <<"/", "w">>

RECURSIVE AnyExcludeMatches(_, _, _)
\* the for loop of should_skip_path (main.rs:301-305), from pattern i on
AnyExcludeMatches(excludes, path_str, i) ==
    IF i > Len(excludes) THEN FALSE
    ELSE IF IsMatch(excludes[i], path_str) THEN TRUE
    ELSE AnyExcludeMatches(excludes, path_str, i + 1)

\* a mutant: no path is ever skipped
should_skip_path_Never(path, content_root, excludes) ==
    [outcome |-> "returned", skip |-> FALSE]

\* should_skip_path: the path is made relative to content_root, a panic
\* when it is not below it, and is skipped when a pattern matches it
should_skip_path(path, content_root, excludes) ==
    The({ IF ~sp.ok THEN [outcome |-> "panicked", skip |-> FALSE]
          ELSE [outcome |-> "returned",
                skip |-> AnyExcludeMatches(excludes, RelString(sp.rest), 1)] :
          sp \in { StripPrefix(path, content_root) } })

RECURSIVE ShouldRebuild(_, _, _)
\* main.rs:213-221: the paths of the event are gone through from path i on
\* until one is not skipped
ShouldRebuild(paths, excludes, i) ==
    IF i > Len(paths) THEN [outcome |-> "returned", should_rebuild |-> FALSE]
    ELSE The({ IF r.outcome = "panicked"
               THEN [outcome |-> "panicked", should_rebuild |-> FALSE]
               ELSE IF ~r.skip
               THEN [outcome |-> "returned", should_rebuild |-> TRUE]
               ELSE ShouldRebuild(paths, excludes, i + 1) :
               r \in { should_skip_path(paths[i], WatchRoot, excludes) } })

\* the path of a file below the watched root
Watched(rel) == WatchRoot \o <<"/">> \o rel

\* what the watcher sends for a change of the files paths; exists tells
\* whether the first of them is there when the loop looks, and at is the
\* time of the change, which the watcher sets
FsEvent(kind, paths, exists) ==
    [ok |-> TRUE, kind |-> kind, paths |-> paths, exists |-> exists, at |-> 0]

\* the output file a build writes first: that of the root route
BuiltFile(config) == Watched(config.build_dir \o <<"/", "index", ".", "html">>)

\* the configurations of the served sites: the build directory is the
\* default one or another, and the watch_excludes of the configuration file
\* are absent, or a pattern that names the other build directory and one
\* that does not compile
WatchConfigs ==
    [build_dir : { <<"site">>, <<"out">> },
     serve_config :
        [watch_excludes :
            { << >>,
              << [re |-> <<"out">>, valid |-> TRUE],
                 [re |-> <<"(">>, valid |-> FALSE] >> }]]

\* what the watcher can send of itself: changes of a content file, of a
\* file of the repository data, of both, the removal of a content file, a
\* read access, a change outside the watched root, and an error; the
\* changes below the build directory are those the rebuilds make
WatchEvents ==
    { FsEvent("Modify", << Watched(<<"content", "/", "a", ".", "md">>) >>, TRUE),
      FsEvent("Create", << Watched(<<".", "git", "/", "x">>) >>, TRUE),
      FsEvent("Modify", << Watched(<<".", "git", "/", "x">>),
                           Watched(<<"content", "/", "a", ".", "md">>) >>, TRUE),
      FsEvent("Remove", << Watched(<<"content", "/", "a", ".", "md">>) >>, FALSE),
      FsEvent("Access", << Watched(<<"content", "/", "a", ".", "md">>) >>, TRUE),
      FsEvent("Modify", << <<"/", "tmp", "/", "x">> >>, TRUE),
      [ok |-> FALSE, kind |-> "Error", paths |-> << >>, exists |-> FALSE,
       at |-> 0] }

\* Weaver::new (lib.rs:94-110): no document, route, template or partial
WeaverNew ==
    [documents |-> << >>, routes |-> << >>, templates |-> << >>,
     partials |-> << >>]

\* a mutant: the Weaver is made once, before the loop, and used again
IterationInstance_Hoisted(previous) ==
    IF previous = << >> THEN WeaverNew ELSE previous

\* main.rs:209: the Weaver an iteration of the loop works on, whatever the
\* one of the previous iteration was
IterationInstance(previous) == WeaverNew

\* Weaver::scan_content (lib.rs:112-139): a document and a route are pushed
\* for every file the glob yields
ScanContent(instance, files) ==
    [instance EXCEPT
        !.documents = @ \o files,
        !.routes = @ \o [i \in 1..Len(files) |->
                            route_from_path(SiteContentDir, files[i]).route]]

\* Weaver::scan_templates (lib.rs:169-185): every template found is pushed
ScanTemplates(instance) ==
    [instance EXCEPT
        !.templates = @ \o [i \in 1..Len(SiteTemplates) |-> SiteTemplates[i].at_path]]

\* the content files the glob can yield when a build scans them
ContentScans ==
    { << PathOf(SiteContentDir, << >>, <<"a", ".", "md">>) >>,
      << PathOf(SiteContentDir, << >>, <<"a", ".", "md">>),
         PathOf(SiteContentDir, << >>, <<"index", ".", "md">>) >> }

\* how a build can end: build() returns Ok or an error, or a scan step
\* panics (lib.rs:134, document.rs:65-70)
BuildEnds == { "ok", "err", "panic" }

\* a mutant: "reload" is sent however the build ended
ReloadsAfter_Always(reloads, build_result) == reloads + 1

\* main.rs:249-264: "reload" is sent when the build returned Ok
ReloadsAfter(reloads, build_result) ==
    IF build_result = "ok" THEN reloads + 1 ELSE reloads

\* main.rs:208, 240-245: the loop takes the next res when it is not
\* awaiting a build
LoopTakesNext(pc) == pc = "watching"

\* main.rs:121-133: the serve command begins with a build of the site
InitWatch ==
    /\ IdleLocks
    /\ IdleReload
    /\ IdleServe
    /\ IdleRoute
    /\ IdleGlobals
    /\ IdleBuild
    /\ IdleSort
    /\ wConfig \in WatchConfigs
    /\ wExcludes = CompileExcludes(get_merged_watch_exclude_patterns(wConfig))
    /\ wRx = << >>
    /\ wArrived = 0
    /\ wNow = 0
    /\ wLast = 0
    /\ wPc = "initial"
    /\ wEvent = << >>
    /\ wOutcome = "none"
    /\ wRebuilds = 0
    /\ wReloads = 0
    /\ wLog = << >>
    /\ wInstance = << >>
    /\ wSeen = << >>
    /\ wInFlight = 0
    /\ wBegan = 0

\* main.rs:125-133, 196-206: the first build ends; its error is returned
\* from main with "?", and a panic of a scan step unwinds main; otherwise
\* the watcher is made and last_build_time is the time at which it is
InitialBuild ==
    /\ wPc = "initial"
    /\ \E end \in BuildEnds :
          /\ wPc' = IF end = "ok" THEN "watching" ELSE "exited"
          /\ wOutcome' = IF end = "ok" THEN "none" ELSE "initial build failed"
    /\ wLast' = wNow
    /\ UNCHANGED <<wConfig, wExcludes, wRx, wArrived, wNow, wEvent, wRebuilds,
                   wReloads, wLog, wInstance, wSeen, wInFlight, wBegan,
                   routeVars, globalsVars, buildVars, sortVars, reloadVars, serveVars, lockVars>>

\* the file system changes and the watcher sends the event
Notify ==
    /\ wPc \in { "watching", "rebuilding" }
    /\ wArrived < MaxEvents
    /\ \E e \in WatchEvents : wRx' = Append(wRx, [e EXCEPT !.at = wNow])
    /\ wArrived' = wArrived + 1
    /\ UNCHANGED <<wConfig, wExcludes, wNow, wLast, wPc, wEvent, wOutcome,
                   wRebuilds, wReloads, wLog, wInstance, wSeen, wInFlight,
                   wBegan, routeVars, globalsVars, buildVars, sortVars, reloadVars, serveVars, lockVars>>

\* a debounce duration passes
Tick ==
    /\ wPc \in { "initial", "watching", "rebuilding" }
    /\ wNow < MaxTime
    /\ wNow' = wNow + 1
    /\ UNCHANGED <<wConfig, wExcludes, wRx, wArrived, wLast, wPc, wEvent,
                   wOutcome, wRebuilds, wReloads, wLog, wInstance, wSeen,
                   wInFlight, wBegan, routeVars, globalsVars, buildVars,
                   sortVars, reloadVars, serveVars, lockVars>>

\* main.rs:223-245: the site is scanned into the Weaver of the iteration,
\* a scan step panicking or not, and the build is begun and awaited
Rebuild(res) ==
    \E scan_panics \in BOOLEAN, files \in ContentScans :
        /\ wRebuilds' = wRebuilds + 1
        /\ wBegan' = wNow
        /\ wRx' = Tail(wRx)
        /\ wSeen' = files
        /\ wInstance' = ScanTemplates(ScanContent(IterationInstance(wInstance), files))
        /\ wLog' = Append(wLog, [event |-> res, began |-> wNow,
                                 result |-> IF scan_panics THEN "panic"
                                            ELSE "running"])
        /\ wPc' = IF scan_panics THEN "panicked" ELSE "rebuilding"
        /\ wOutcome' = IF scan_panics THEN "build panicked" ELSE "rebuilding"
        /\ wInFlight' = IF scan_panics THEN wInFlight ELSE wInFlight + 1
        /\ UNCHANGED <<wNow, wLast, wReloads>>

\* the iteration ends without a rebuild
NoRebuild(outcome) ==
    /\ wRx' = Tail(wRx)
    /\ wOutcome' = outcome
    /\ UNCHANGED <<wNow, wLast, wPc, wRebuilds, wReloads, wLog, wInstance,
                   wSeen, wInFlight, wBegan>>

\* main.rs:208-245: one iteration of the loop over rx, up to the build
HandleEvent ==
    /\ LoopTakesNext(wPc)
    /\ wRx # << >>
    /\ wRebuilds < MaxRebuilds
    /\ wEvent' = Head(wRx)
    /\ \E res \in { Head(wRx) } :
          IF ~res.ok THEN NoRebuild("error")
          ELSE IF res.kind \notin { "Create", "Modify", "Remove" }
          THEN NoRebuild("other kind")
          ELSE \E r \in { ShouldRebuild(res.paths, wExcludes, 1) } :
                  IF r.outcome = "panicked"
                  THEN /\ wPc' = "panicked"
                       /\ wOutcome' = "panicked"
                       /\ UNCHANGED <<wRx, wNow, wLast, wRebuilds, wReloads,
                                      wLog, wInstance, wSeen, wInFlight, wBegan>>
                  ELSE IF ~r.should_rebuild THEN NoRebuild("excluded")
                  ELSE IF wNow - wLast < DebounceTicks THEN NoRebuild("debounced")
                  ELSE IF ~res.exists THEN NoRebuild("removed")
                  ELSE Rebuild(res)
    /\ UNCHANGED <<wConfig, wExcludes, wArrived, routeVars, globalsVars,
                   buildVars, sortVars, reloadVars, serveVars, lockVars>>

\* main.rs:240-266: the build returns: last_build_time becomes the time at
\* which the iteration began, a build that returned Ok has written its
\* files, which the watcher reports, and "reload" is sent for it; an error
\* is printed
RebuildReturn ==
    /\ wPc = "rebuilding"
    /\ wInFlight > 0
    /\ \E end \in BuildEnds \ { "panic" } :
          /\ wReloads' = ReloadsAfter(wReloads, end)
          /\ wRx' = wRx \o (IF end = "ok"
                            THEN << [FsEvent("Modify", << BuiltFile(wConfig) >>, TRUE)
                                       EXCEPT !.at = wNow] >>
                            ELSE << >>)
          /\ wOutcome' = IF end = "ok" THEN "rebuilt" ELSE "failed"
          /\ wLog' = [wLog EXCEPT ![Len(wLog)].result = end]
    /\ wLast' = wBegan
    /\ wInFlight' = wInFlight - 1
    /\ wPc' = "watching"
    /\ UNCHANGED <<wConfig, wExcludes, wArrived, wNow, wEvent, wRebuilds,
                   wInstance, wSeen, wBegan, routeVars, globalsVars, buildVars,
                   sortVars, reloadVars, serveVars, lockVars>>

NextWatch ==
    \/ InitialBuild
    \/ Notify
    \/ Tick
    \/ HandleEvent
    \/ RebuildReturn

SpecWatch == InitWatch /\ [][NextWatch]_vars

(***************************************************************************)
(* Claims about the watch loop, checked under SpecWatch                    *)
(***************************************************************************)
\* the path p below the watched root, written relative to it
RelativeToRoot(p) == SubSeq(p, Len(WatchRoot) + 2, Len(p))

\* a watch-exclusion pattern matches the path p
Excluded(p) ==
    \E i \in 1..Len(wExcludes) : IsMatch(wExcludes[i], RelativeToRoot(p))

\* the iteration the loop went through last started a rebuild
StartedRebuild ==
    wOutcome \in { "rebuilding", "rebuilt", "failed", "build panicked" }

\* C19: an event all of whose paths match a watch-exclusion pattern never
\* starts a rebuild: the event of an iteration that started one is a
\* creation, modification or removal with at least one path that no
\* exclusion pattern matches; and an iteration over an event whose paths are
\* all excluded changes neither the rebuild count nor last_build_time.
C19_ExcludedNeverRebuilds ==
    /\ StartedRebuild =>
          /\ wEvent.ok /\ wEvent.kind \in { "Create", "Modify", "Remove" }
          /\ \E i \in 1..Len(wEvent.paths) : ~Excluded(wEvent.paths[i])
    /\ (wEvent # << >> /\ wEvent.ok
          /\ \A i \in 1..Len(wEvent.paths) : Excluded(wEvent.paths[i]))
        => wOutcome \in { "excluded", "other kind" }

\* C19 witness: after a rebuild, and more than a debounce duration later, the
\* loop went through the creation of an existing file whose only path an
\* exclusion pattern matches, and ended the iteration as excluded.
C19_Witness ==
    /\ wOutcome = "excluded"
    /\ wEvent.kind = "Create" /\ wEvent.exists
    /\ Len(wEvent.paths) = 1 /\ Excluded(wEvent.paths[1])
    /\ wNow - wLast >= DebounceTicks
    /\ wRebuilds = 1

\* the path p is below the build directory of the configuration
UnderBuildDir(p) ==
    /\ Len(p) > Len(Watched(wConfig.build_dir))
    /\ SubSeq(p, 1, Len(Watched(wConfig.build_dir)) + 1)
          = Watched(wConfig.build_dir) \o <<"/">>

OwnEvent(i) ==
    \E k \in 1..Len(wLog[i].event.paths) : ~UnderBuildDir(wLog[i].event.paths[k])

\* C21 (as stated): of two qualifying events that occurred within one
\* debounce window only one starts a rebuild, also when the rebuild the
\* first started takes longer than the window.
C21_OneRebuildPerWindow ==
    \A i, j \in DOMAIN wLog :
        (i < j /\ OwnEvent(i) /\ OwnEvent(j)) =>
            wLog[j].event.at - wLog[i].event.at >= DebounceTicks

\* the step to the next state is an iteration of the loop over rx
IterationStep ==
    /\ wPc = "watching" /\ wRx # << >>
    /\ wArrived' = wArrived /\ wNow' = wNow
    /\ (wRx' # wRx \/ wPc' # wPc)

\* the event is a creation, modification or removal below the watched root
\* with a path that no exclusion pattern matches
Qualifies(e) ==
    /\ e.ok /\ e.kind \in { "Create", "Modify", "Remove" }
    /\ \A k \in 1..Len(e.paths) :
          SubSeq(e.paths[k], 1, Len(WatchRoot) + 1) = WatchRoot \o <<"/">>
    /\ \E k \in 1..Len(e.paths) : ~Excluded(e.paths[k])

\* C22 (as stated): an iteration over a qualifying event that is taken
\* outside the debounce window starts a rebuild; so does the removal of a
\* content file that no pattern excludes.
C22_QualifyingEventRebuilds ==
    [][(IterationStep /\ Qualifies(Head(wRx)) /\ wNow - wLast >= DebounceTicks)
          => wRebuilds' = wRebuilds + 1]_vars

\* C23 (as stated): when the first build or a triggered rebuild has failed,
\* by an error or by a failing scan step, the loop is still there to take
\* the later events.
C23_FailureKeepsWatching ==
    wOutcome \in { "initial build failed", "failed", "build panicked" }
        => wPc \in { "watching", "rebuilding" }

\* the rebuilds of the log that returned Ok
SucceededRebuilds == { i \in DOMAIN wLog : wLog[i].result = "ok" }

\* C24: the "reload" messages sent are as many as the triggered rebuilds
\* that have returned Ok: one is sent for each of them, once it has
\* returned, and none for a rebuild that runs, failed or panicked, nor for
\* the first build.
C24_ReloadPerSuccessfulRebuild == wReloads = Cardinality(SucceededRebuilds)

\* C24 witness: of two rebuilds the first failed and the second returned
\* Ok, and one "reload" has been sent.
C24_Witness ==
    /\ Len(wLog) = 2
    /\ wLog[1].result = "err" /\ wLog[2].result = "ok"
    /\ wReloads = 1 /\ wPc = "watching"

MaxClients == 2

MaxSignals == 2

Connections == 1..MaxClients

\* the receiver of the broadcast channel of a handler is there from the
\* moment the handler makes the channel (routes.rs:32) until it ends
ChannelOpen(pc) == pc \in { "registered", "greeting", "listening" }

\* Vec::remove(i)
RemoveAt(clients, i) ==
    SubSeq(clients, 1, i - 1) \o SubSeq(clients, i + 1, Len(clients))

\* Vec::retain(|s| !s.same_channel(tx)) for the sender of connection c
RetainOthers(clients, c) ==
    SelectIdx(clients, { i \in 1..Len(clients) : clients[i] # c }, 1)

RECURSIVE DisconnectedClients(_, _, _)
\* main.rs:171-179: a send to every sender of the registry, from position
\* i on; the positions of those whose send fails, in increasing order
DisconnectedClients(clients, pcs, i) ==
    IF i > Len(clients) THEN << >>
    ELSE (IF ChannelOpen(pcs[clients[i]]) THEN << >> ELSE <<i>>)
         \o DisconnectedClients(clients, pcs, i + 1)

RECURSIVE RemoveDisconnected_Forward(_, _)
\* a mutant: the positions are removed from the first to the last
RemoveDisconnected_Forward(clients, disconnected) ==
    IF disconnected = << >> THEN clients
    ELSE IF Head(disconnected) > Len(clients) THEN clients
    ELSE RemoveDisconnected_Forward(RemoveAt(clients, Head(disconnected)),
                                    Tail(disconnected))

RECURSIVE RemoveDisconnected(_, _)
\* main.rs:181-183: the positions are removed from the last to the first
RemoveDisconnected(clients, disconnected) ==
    IF disconnected = << >> THEN clients
    ELSE RemoveDisconnected(RemoveAt(clients, disconnected[Len(disconnected)]),
                            SubSeq(disconnected, 1, Len(disconnected) - 1))

\* a mutant: the message is sent to the first sender of the registry only
ChannelsAfterSend_FirstOnly(chans, clients, pcs, message) ==
    [c \in DOMAIN chans |->
        IF clients # << >> /\ clients[1] = c /\ ChannelOpen(pcs[c])
        THEN Append(chans[c], message) ELSE chans[c]]

\* main.rs:171-172: the channels after the message was sent to every sender
\* of the registry: it is in the channel of each whose receiver is there
ChannelsAfterSend(chans, clients, pcs, message) ==
    [c \in DOMAIN chans |->
        IF (\E i \in 1..Len(clients) : clients[i] = c) /\ ChannelOpen(pcs[c])
        THEN Append(chans[c], message) ELSE chans[c]]

\* the serve command has made the registry and the file_change channel and
\* spawned the broadcaster (main.rs:152-190); no browser has connected
InitReload ==
    /\ IdleLocks
    /\ IdleRoute
    /\ IdleGlobals
    /\ IdleBuild
    /\ IdleSort
    /\ IdleWatch
    /\ IdleServe
    /\ rClients = << >>
    /\ rPc = [c \in Connections |-> "none"]
    /\ rUp = [c \in Connections |-> TRUE]
    /\ rChan = [c \in Connections |-> << >>]
    /\ rSocket = [c \in Connections |-> << >>]
    /\ rFileChange = << >>
    /\ rSignals = 0
    /\ rBroadcasts = 0

\* serve_websocket (routes.rs:25-29, 97-104): the upgrade is refused with
\* status 400, or the handler is spawned and 101 is returned
Upgrade(c) ==
    /\ rPc[c] = "none"
    /\ \E ok \in BOOLEAN :
          rPc' = [rPc EXCEPT ![c] = IF ok THEN "spawned" ELSE "refused"]
    /\ UNCHANGED <<rClients, rUp, rChan, rSocket, rFileChange, rSignals,
                   rBroadcasts, routeVars, globalsVars, buildVars, sortVars,
                   watchVars, serveVars, lockVars>>

\* a mutant: once registered the handler goes to its forwarding loop at
\* once, without the websocket object and the "hello"
Register_SkipHello(c) ==
    /\ rPc[c] = "spawned"
    /\ rClients' = Append(rClients, c)
    /\ rPc' = [rPc EXCEPT ![c] = "listening"]
    /\ UNCHANGED <<rUp, rChan, rSocket, rFileChange, rSignals, rBroadcasts,
                   routeVars, globalsVars, buildVars, sortVars, watchVars,
                   serveVars, lockVars>>

\* routes.rs:32-40: the handler makes its channel and pushes the sender
Register(c) ==
    /\ rPc[c] = "spawned"
    /\ rClients' = Append(rClients, c)
    /\ rPc' = [rPc EXCEPT ![c] = "registered"]
    /\ UNCHANGED <<rUp, rChan, rSocket, rFileChange, rSignals, rBroadcasts,
                   routeVars, globalsVars, buildVars, sortVars, watchVars,
                   serveVars, lockVars>>

\* routes.rs:43-54: the websocket is received, or it is not and the sender
\* is taken out of the registry
ReceiveSocket(c) ==
    /\ rPc[c] = "registered"
    /\ IF rUp[c]
       THEN /\ rPc' = [rPc EXCEPT ![c] = "greeting"]
            /\ UNCHANGED rClients
       ELSE /\ rPc' = [rPc EXCEPT ![c] = "ended"]
            /\ rClients' = RetainOthers(rClients, c)
    /\ UNCHANGED <<rUp, rChan, rSocket, rFileChange, rSignals, rBroadcasts,
                   routeVars, globalsVars, buildVars, sortVars, watchVars,
                   serveVars, lockVars>>

\* routes.rs:57-64: "hello" is sent, or it cannot be and the sender is
\* taken out of the registry
SendHello(c) ==
    /\ rPc[c] = "greeting"
    /\ IF rUp[c]
       THEN /\ rPc' = [rPc EXCEPT ![c] = "listening"]
            /\ rSocket' = [rSocket EXCEPT ![c] = Append(@, "hello")]
            /\ UNCHANGED rClients
       ELSE /\ rPc' = [rPc EXCEPT ![c] = "ended"]
            /\ rClients' = RetainOthers(rClients, c)
            /\ UNCHANGED rSocket
    /\ UNCHANGED <<rUp, rChan, rFileChange, rSignals, rBroadcasts, routeVars,
                   globalsVars, buildVars, sortVars, watchVars, serveVars, lockVars>>

\* routes.rs:67-94: the next message of the channel is sent to the socket,
\* or it cannot be and the handler leaves its loop and ends
Forward(c) ==
    /\ rPc[c] = "listening"
    /\ rChan[c] # << >>
    /\ rChan' = [rChan EXCEPT ![c] = Tail(@)]
    /\ IF rUp[c]
       THEN /\ rSocket' = [rSocket EXCEPT ![c] = Append(@, Head(rChan[c]))]
            /\ UNCHANGED rPc
       ELSE /\ rPc' = [rPc EXCEPT ![c] = "ended"]
            /\ UNCHANGED rSocket
    /\ UNCHANGED <<rClients, rUp, rFileChange, rSignals, rBroadcasts,
                   routeVars, globalsVars, buildVars, sortVars, watchVars,
                   serveVars, lockVars>>

\* the browser closes its socket, after which no frame can be sent to it
Disconnect(c) ==
    /\ rPc[c] \notin { "none", "refused", "ended" }
    /\ rUp[c]
    /\ rUp' = [rUp EXCEPT ![c] = FALSE]
    /\ UNCHANGED <<rClients, rPc, rChan, rSocket, rFileChange, rSignals,
                   rBroadcasts, routeVars, globalsVars, buildVars, sortVars,
                   watchVars, serveVars, lockVars>>

\* main.rs:252-253: the watch loop sends "reload" after a rebuild
Signal ==
    /\ rSignals < MaxSignals
    /\ rFileChange' = Append(rFileChange, "reload")
    /\ rSignals' = rSignals + 1
    /\ UNCHANGED <<rClients, rPc, rUp, rChan, rSocket, rBroadcasts, routeVars,
                   globalsVars, buildVars, sortVars, watchVars, serveVars, lockVars>>

\* main.rs:167-189: one iteration of the broadcaster, the registry locked:
\* the message is sent to every sender and the senders whose send failed
\* are removed
Broadcast ==
    /\ rFileChange # << >>
    /\ rFileChange' = Tail(rFileChange)
    /\ rChan' = ChannelsAfterSend(rChan, rClients, rPc, Head(rFileChange))
    /\ \E disconnected \in { DisconnectedClients(rClients, rPc, 1) } :
          rClients' = RemoveDisconnected(rClients, disconnected)
    /\ rBroadcasts' = rBroadcasts + 1
    /\ UNCHANGED <<rPc, rUp, rSocket, rSignals, routeVars, globalsVars,
                   buildVars, sortVars, watchVars, serveVars, lockVars>>

NextReload ==
    \/ \E c \in Connections : Upgrade(c)
    \/ \E c \in Connections : Register(c)
    \/ \E c \in Connections : ReceiveSocket(c)
    \/ \E c \in Connections : SendHello(c)
    \/ \E c \in Connections : Forward(c)
    \/ \E c \in Connections : Disconnect(c)
    \/ Signal
    \/ Broadcast

SpecReload == InitReload /\ [][NextReload]_vars

(***************************************************************************)
(* Claims about the live reload, checked under SpecReload                  *)
(***************************************************************************)
\* the sender of connection c is in the registry
Registered(clients, c) == \E i \in 1..Len(clients) : clients[i] = c

\* connection c is established: its handler has registered it and sent
\* the initial "hello", and the browser still holds the socket
Connected(c) == rPc[c] = "listening" /\ rUp[c]

\* the step to the next state is an iteration of the broadcaster
BroadcastStep == rBroadcasts' = rBroadcasts + 1

\* what the step to the next state does with a reload signal: an iteration
\* of the broadcaster puts the message once into the channel of every
\* established connection, and into no channel more than once; the handler
\* of an established connection sends the message it takes from its channel
\* to the socket, once
ReloadStep ==
    /\ BroadcastStep =>
          /\ \A c \in Connections :
                Connected(c) => rChan'[c] = Append(rChan[c], Head(rFileChange))
          /\ \A c \in Connections : Len(rChan'[c]) <= Len(rChan[c]) + 1
          /\ rSocket' = rSocket
    /\ \A c \in Connections :
          (Connected(c) /\ rChan[c] # << >> /\ rChan'[c] = Tail(rChan[c]))
              => rSocket'[c] = Append(rSocket[c], Head(rChan[c]))
    /\ \A c \in Connections :
          Len(rSocket'[c]) > Len(rSocket[c]) =>
              /\ Len(rSocket'[c]) = Len(rSocket[c]) + 1
              /\ rSocket[c] = << >> \/ rChan'[c] = Tail(rChan[c])

\* C26: every connection that is established when the broadcaster takes a
\* reload signal is sent the message once: it is put once into the
\* connection's channel, and the handler sends to the socket each message
\* of the channel once.
C26_EveryClientReloadedOnce == [][ReloadStep]_vars

\* C26 witness: all the connections were made, one signal was sent and
\* broadcast, and every socket has been sent "hello" and then "reload" once.
C26_Witness ==
    /\ rSignals = 1 /\ rBroadcasts = 1
    /\ Len(rClients) = MaxClients
    /\ \A c \in Connections :
          rSocket[c] = <<"hello", "reload">> /\ rChan[c] = << >>

\* the position of connection c in the registry clients
PositionIn(clients, c) == CHOOSE i \in 1..Len(clients) : clients[i] = c

\* what an iteration of the broadcaster does: every registered channel
\* whose receiver is there gets the message, also those after one whose
\* send failed, and the registry is then made of the senders whose send
\* succeeded, in the order they had
BroadcastPrunes ==
    BroadcastStep =>
        /\ \A c \in Connections :
              (Registered(rClients, c) /\ ChannelOpen(rPc[c]))
                  => rChan'[c] = Append(rChan[c], Head(rFileChange))
        /\ \A c \in Connections :
              Registered(rClients', c)
                  <=> (Registered(rClients, c) /\ ChannelOpen(rPc[c]))
        /\ \A i, j \in 1..Len(rClients') :
              i < j => PositionIn(rClients, rClients'[i])
                          < PositionIn(rClients, rClients'[j])
        /\ rFileChange' = Tail(rFileChange)

\* C27: a broadcast sends to every registered channel even when sends to
\* some of them fail, and leaves in the registry exactly the senders whose
\* send succeeded, in their previous order; the broadcaster then takes the
\* next signal.
C27_BroadcastPrunesFailed == [][BroadcastPrunes]_vars

\* C27 witness: two signals were broadcast; both connections had been
\* established, the handler of the first ended on a socket it could not
\* send to, and the second broadcast removed its sender and kept the other
\* one, whose channel or socket got both messages.
C27_Witness ==
    /\ rBroadcasts = 2
    /\ rPc[1] = "ended" /\ rSocket[1] = <<"hello">>
    /\ rClients = <<2>>
    /\ Len(rSocket[2]) + Len(rChan[2]) = 3

\* C28 (as stated): once the handler of a connection has ended, the
\* registry does not contain the sender of that connection.
C28_EndedHandlerUnregistered ==
    \A c \in Connections : rPc[c] = "ended" => ~Registered(rClients, c)

(***************************************************************************)
(* routes.rs, main.rs: serve_catchall and sanitize_path                    *)
(***************************************************************************)
\* safe_path: the canonical path of the site (main.rs:122)
ServeBase == <<"/", "w">>

\* the config of Weaver::new(safe_path) for a weaving.toml with the given
\* build_dir: the directories are "{base}/{dir}"
PreviewConfig(build_dir) ==
    [base_dir    |-> ServeBase,
     content_dir |-> ServeBase \o <<"/", "content">>,
     public_dir  |-> ServeBase \o <<"/", "public">>,
     build_dir   |-> ServeBase \o <<"/">> \o build_dir]

\* build_dir = "site", the default, and build_dir = "../out"
PreviewConfigs ==
    { PreviewConfig(<<"site">>), PreviewConfig(<<".", ".", "/", "out">>) }

RECURSIVE ResolveNames(_, _)
\* the names that lead from the root to the file a path stands for, when
\* no component is a symbolic link: ".." leaves the directory reached
ResolveNames(comps, reached) ==
    IF comps = << >> THEN reached
    ELSE IF Head(comps).kind = "ParentDir"
    THEN ResolveNames(Tail(comps),
                      IF reached = << >> THEN << >>
                      ELSE SubSeq(reached, 1, Len(reached) - 1))
    ELSE IF Head(comps).kind = "Normal"
    THEN ResolveNames(Tail(comps), Append(reached, Head(comps).name))
    ELSE ResolveNames(Tail(comps), reached)

\* the absolute path without "." and ".." of the file the operating system
\* opens for an absolute path
Resolve(path) ==
    <<"/">> \o JoinWith(ResolveNames(Components(path), << >>), "/")

\* "{dir}/{name}"
Under(dir, name) == dir \o <<"/">> \o name

\* what is on the disk when a request is served: the output of the build
\* below config.build_dir (index.html, about/index.html, the copy of the
\* public directory, an image, a page that cannot be read), with or
\* without content/404.md and the page built from it, and a file of the
\* site directory that is not part of the output
DiskOf(config, has404, built404) ==
    The({ [dirs   |-> { root, Under(root, <<"about">>),
                        Under(root, <<"public">>) }
                      \cup (IF built404 THEN { Under(root, <<"404">>) }
                            ELSE {}),
           files  |-> { Under(root, <<"index", ".", "html">>),
                        Under(root, <<"about", "/", "index", ".", "html">>),
                        Under(root, <<"public", "/", "app", ".", "css">>),
                        Under(root, <<"logo", ".", "png">>),
                        Under(root, <<"locked", ".", "html">>),
                        Under(config.base_dir, <<"secret">>) }
                      \cup (IF built404
                            THEN { Under(root, <<"404", "/", "index", ".",
                                                 "html">>) }
                            ELSE {})
                      \cup (IF has404
                            THEN { Under(config.content_dir,
                                         <<"404", ".", "md">>) }
                            ELSE {}),
           binary |-> { Under(root, <<"logo", ".", "png">>) },
           denied |-> { Under(root, <<"locked", ".", "html">>) }] :
          root \in { Resolve(config.build_dir) } })

PreviewDisks(config) ==
    { DiskOf(config, has404, built404) : has404 \in BOOLEAN,
                                         built404 \in BOOLEAN }

\* request.url(): the decoded path of the request line
RequestPaths ==
    { <<"/">>,
      <<"/", "about">>,
      <<"/", "about", "/">>,
      <<"/", "index", ".", "html">>,
      <<"/", "index", ".", "html", "/">>,
      <<"/", "missing">>,
      <<"/", "missing", "/">>,
      <<"/", "public">>,
      <<"/", "public", "/", "app", ".", "css">>,
      <<"/", "public", "/", "gone", ".", "css">>,
      <<"/", "logo", ".", "png">>,
      <<"/", "locked", ".", "html">>,
      <<"/", "404">>,
      <<"/", "404", ".", "css">>,
      <<"/", ".", ".", "/", "secret">>,
      <<"/", ".", "/", "about", "/", ".", ".", "/", ".", ".", "/", "secret">>,
      <<"/", "/", "w", "/", "secret">> }

\* str::starts_with
StartsWith(s, prefix) ==
    Len(prefix) <= Len(s) /\ SubSeq(s, 1, Len(prefix)) = prefix

\* str::ends_with('/')
EndsWithSlash(s) == s # << >> /\ s[Len(s)] = "/"

\* sanitize_path (main.rs:310-327): the Normal components of req_path
\* pushed on an empty PathBuf, behind a "/" when with_root
sanitize_path(req_path, with_root) ==
    The({ IF with_root THEN <<"/">> \o sanitized ELSE sanitized :
          sanitized \in { JoinWith(NormalNames(Components(req_path)), "/") } })

\* what the file system holds at a path: a file, a directory, nothing
\* ("missing"), or nothing below something that is a file ("notdir")
FileKind(fs, path) ==
    The({ IF p \in fs.files THEN "file"
          ELSE IF p \in fs.dirs THEN "dir"
          ELSE IF \E f \in fs.files :
                     Len(f) < Len(p) /\ SubSeq(p, 1, Len(f) + 1) = f \o <<"/">>
          THEN "notdir"
          ELSE "missing" :
          p \in { Resolve(path) } })

\* Path::exists, fs::exists(..).unwrap()
Exists(fs, path) == FileKind(fs, path) \in { "file", "dir" }

\* Path::is_dir
IsDir(fs, path) == FileKind(fs, path) = "dir"

\* fs::read and fs::read_to_string: Ok, or the kind of the io::Error
ReadFile(fs, path) ==
    The({ IF kind = "file"
          THEN (IF Resolve(path) \in fs.denied
                THEN [ok |-> FALSE, kind |-> "PermissionDenied"]
                ELSE [ok |-> TRUE, kind |-> "none"])
          ELSE [ok |-> FALSE,
                kind |-> IF kind = "dir" THEN "IsADirectory"
                         ELSE IF kind = "notdir" THEN "NotADirectory"
                         ELSE "NotFound"] :
          kind \in { FileKind(fs, path) } })

\* is_probably_binary (routes.rs:108-117): Err when the file cannot be
\* read, else whether bindet knows its content
is_probably_binary(fs, path) ==
    The({ [ok |-> read.ok, binary |-> read.ok /\ Resolve(path) \in fs.binary] :
          read \in { ReadFile(fs, path) } })

\* routes.rs:128-153: the path of the file serve_catchall reads
FilePath(config, fs, req_path) ==
    The({ IF EndsWithSlash(req_path) \/ req_path = <<"/">>
          THEN Under(file_path, <<"index", ".", "html">>)
          ELSE IF StartsWith(req_path, public_root)
          THEN file_path
          ELSE IF ~Exists(fs, file_path) \/ IsDir(fs, file_path)
          THEN Under(file_path, <<"index", ".", "html">>)
          ELSE file_path :
          public_root \in { SubSeq(config.public_dir, Len(config.base_dir) + 1,
                                   Len(config.public_dir)) },
          file_path \in
              { sanitize_path(<<"/">> \o config.build_dir \o <<"/">>
                                  \o sanitize_path(req_path, FALSE),
                              TRUE) } })

\* routes.rs:182-185
StatusOf(kind) == IF kind = "NotFound" THEN 404 ELSE 500

RECURSIVE serve_catchall(_, _, _, _)
\* serve_catchall (routes.rs:119-199) for request.url() = req_path: the
\* status and the body of the Response, and the file paths read for it,
\* those of the calls that dispatched to this one first
serve_catchall(config, fs, req_path, reads) ==
    The({ IF is_binary.ok /\ is_binary.binary
          THEN [status |-> 200,
                body |-> [kind |-> "file", of |-> file_path],
                reads |-> Append(reads, file_path)]
          ELSE IF read.ok
          THEN [status |-> 200,
                body |-> [kind |-> "page", of |-> file_path],
                reads |-> Append(reads, file_path)]
          ELSE IF /\ StatusOf(read.kind) = 404
                  /\ ~StartsWith(req_path, <<"/", "404">>)
                  /\ Exists(fs, Under(config.content_dir, <<"404", ".", "md">>))
          THEN serve_catchall(config, fs, <<"/", "404">>,
                              Append(reads, file_path))
          ELSE [status |-> StatusOf(read.kind),
                body |-> [kind |-> "error", of |-> <<read.kind>>],
                reads |-> Append(reads, file_path)] :
          file_path \in { FilePath(config, fs, req_path) },
          is_binary \in { is_probably_binary(fs, FilePath(config, fs, req_path)) },
          read \in { ReadFile(fs, FilePath(config, fs, req_path)) } })

\* the preview server of a built site listens (main.rs:279-288)
InitServe ==
    /\ IdleLocks
    /\ IdleRoute
    /\ IdleGlobals
    /\ IdleBuild
    /\ IdleSort
    /\ IdleWatch
    /\ IdleReload
    /\ svConfig \in PreviewConfigs
    /\ svFs \in PreviewDisks(svConfig)
    /\ svReq = << >>
    /\ svPc = "listening"
    /\ svResponse = << >>

\* the router hands a request that is not GET /ws to serve_catchall
\* (main.rs:283-286)
Request(req_path) ==
    /\ svPc \in { "listening", "answered" }
    /\ svReq' = req_path
    /\ svPc' = "call"
    /\ svResponse' = << >>
    /\ UNCHANGED <<svConfig, svFs, routeVars, globalsVars, buildVars,
                   sortVars, watchVars, reloadVars, lockVars>>

\* serve_catchall returns the Response
ServeCatchall ==
    /\ svPc = "call"
    /\ svResponse' = serve_catchall(svConfig, svFs, svReq, << >>)
    /\ svPc' = "answered"
    /\ UNCHANGED <<svConfig, svFs, svReq, routeVars, globalsVars, buildVars,
                   sortVars, watchVars, reloadVars, lockVars>>

NextServe ==
    \/ \E req_path \in RequestPaths : Request(req_path)
    \/ ServeCatchall

SpecServe == InitServe /\ [][NextServe]_vars

(***************************************************************************)
(* Claims about the preview server, checked under SpecServe                *)
(***************************************************************************)
\* path lies inside the directory root
Inside(path, root) == StripPrefix(Resolve(path), Resolve(root)).ok

\* C29 (as stated): whatever the request path, every file path read for
\* the response lies inside config.build_dir, the root of the build output.
C29_ReadsInsideBuildDir ==
    svPc = "answered" =>
        \A i \in 1..Len(svResponse.reads) :
            Inside(svResponse.reads[i], svConfig.build_dir)

\* the page the build makes of content/404.md
NotFoundPage == Under(svConfig.build_dir, <<"404", "/", "index", ".", "html">>)

\* C30 (as stated): when the file of the request is missing the response
\* is the page built from content/404.md if that file exists (and its page
\* was built) and a plain 404 otherwise; when it cannot be read for another
\* reason the response is a 500 with the error; "/404" is dispatched to at
\* most once.
C30_NotFoundFallback ==
    svPc = "answered" =>
        LET first == ReadFile(svFs, svResponse.reads[1])
            custom == /\ Exists(svFs, Under(svConfig.content_dir,
                                            <<"404", ".", "md">>))
                      /\ Exists(svFs, NotFoundPage)
        IN  /\ (first.kind = "NotFound" /\ custom) =>
                  svResponse.body = [kind |-> "page", of |-> NotFoundPage]
            /\ (first.kind = "NotFound" /\ ~custom) =>
                  /\ svResponse.status = 404
                  /\ svResponse.body.kind = "error"
            /\ (~first.ok /\ first.kind # "NotFound") =>
                  /\ svResponse.status = 500
                  /\ svResponse.body = [kind |-> "error", of |-> <<first.kind>>]
            /\ Len(svResponse.reads) <= 2

(***************************************************************************)
(* Claims about the loading of documents, checked under SpecBuild          *)
(***************************************************************************)
\* the path of the content file SiteFiles[f]
ContentFile(f) == PathOf(SiteContentDir, SiteFiles[f].dirs, SiteFiles[f].file)

\* document i of the scan is the one new_from_path returns when the
\* frontmatter of its file does not deserialize
UnparsedDocument(i) == bScan[i].at_path = << >>

C32_EmitMirrorsMetadata ==
    \A i \in 1..NumDocs : bScan[i].emit = bScan[i].metadata.emit

(***************************************************************************)
(* Claims about the copy tasks, checked under SpecBuild                    *)
(***************************************************************************)
\* the position of the side-effect task named name in the list tasks
TaskOf(name) == NumDocs + (CHOOSE k \in 1..Len(SideTasks) : SideTasks[k] = name)

CopyTasks == { TaskOf("PublicCopyTask"), TaskOf("WellKnownCopyTask") }

\* C33 (as stated): a copy task that has run while the directory it copies
\* from (the src it hands to copy_dir_all) did not exist has yielded
\* nothing, has written nothing and has not failed; and a build in which a
\* side-effect task has failed returns an error.
C33_MissingSourceIsNoOp ==
    /\ \A t \in CopyTasks :
          (bStatus[t] = "done" /\ ~bEnv.public) =>
              /\ bResult[t] = ResultNone
              /\ t \notin Writers
    /\ (bPc = "returned" /\ \E t \in AllTasks : t > NumDocs /\ Failed(t))
          => ~bReturn.ok

\* the files the well-known copy task has put on the disk
WellKnownCopied == { e.path : e \in { d \in bDisk : d.by = TaskOf("WellKnownCopyTask") } }

\* C37 (as stated): when the site has a .well-known directory, the
\* well-known copy task leaves in "{build_dir}/.well-known" the files of
\* that directory, and no others.
C37_WellKnownCopied ==
    (bEnv.wellKnown /\ bStatus[TaskOf("WellKnownCopyTask")] = "done") =>
        WellKnownCopied
            = { SiteBuildDir \o <<"/", ".", "well-known">> }
              \cup { SiteBuildDir \o <<"/", ".", "well-known", "/">> \o f :
                     f \in WellKnownFiles }

(***************************************************************************)
(* Claims about the sitemap and the feed, checked under SpecBuild          *)
(***************************************************************************)
\* the pages in the buckets of the LiquidGlobals the task t rendered its
\* template with
PagesInBuckets(t) ==
    LET content == bResult[t].file.contents.data.content
    IN  { content[b][i] : <<b, i>> \in
            UNION { { <<k, n>> : n \in 1..Len(content[k]) } : k \in DOMAIN content } }

\* C34 (as stated): the LiquidGlobals the sitemap and feed templates are
\* rendered with hold every page of the content snapshot in some bucket,
\* the page of the root route "/" included.
C34_SitemapSeesEveryPage ==
    \A t \in { TaskOf("SiteMapTask"), TaskOf("AtomFeedTask") } :
        (bStatus[t] = "done" /\ bResult[t].kind = "File") =>
            \A route \in DOMAIN bSnapshot : bSnapshot[route] \in PagesInBuckets(t)

(***************************************************************************)
(* The watch loop under fair scheduling                                    *)
(***************************************************************************)
\* the watch task is scheduled: an event that is in rx is taken by the loop
\* (main.rs:208) and a build that is awaited returns (main.rs:240-245);
\* nothing makes the file system change again or time pass
SpecWatchFair ==
    /\ SpecWatch
    /\ WF_vars(HandleEvent)
    /\ WF_vars(RebuildReturn)

\* the loop has just dropped, inside the debounce window, a qualifying
\* event that had arrived at time t
DroppedAt(t) == wOutcome = "debounced" /\ wEvent.at = t

\* a rebuild has begun at time t or later
RebuildSince(t) == \E i \in 1..Len(wLog) : wLog[i].began >= t

\* C35 (as stated): a qualifying change that the loop finds inside the
\* debounce window is not lost: without any further event, a rebuild that
\* began no earlier than the change eventually runs.
C35_DebouncedChangeRebuilt ==
    \A t \in 0..MaxTime : [](DroppedAt(t) => <>RebuildSince(t))

(***************************************************************************)
(* Claims about the frames of a connection, checked under SpecReload       *)
(***************************************************************************)
\* C36: on every connection no frame is sent before the handler has sent
\* "hello", a reload broadcast before that waits in the channel of the
\* handler, and every frame after "hello" is a "reload".
C36_HelloFirst ==
    \A c \in Connections :
        /\ rPc[c] \in { "none", "refused", "spawned", "registered", "greeting" }
              => rSocket[c] = << >>
        /\ rSocket[c] # << >> =>
              /\ rSocket[c][1] = "hello"
              /\ \A i \in 2..Len(rSocket[c]) : rSocket[c][i] = "reload"

\* C36 witness: a reload was broadcast after the handler of a connection
\* registered and before it has sent "hello": the message is in its
\* channel and nothing was sent to the socket.
C36_Witness ==
    \E c \in Connections :
        /\ rPc[c] = "greeting" /\ rUp[c]
        /\ rChan[c] = <<"reload">>
        /\ rSocket[c] = << >>

(***************************************************************************)
(* Claims about scan_content, checked under SpecBuild and SpecGlobals      *)
(***************************************************************************)
\* the tags the frontmatter of the content file at path declares
DeclaredTags(path) ==
    SiteFiles[CHOOSE f \in 1..Len(SiteFiles) : ContentFile(f) = path].tags

\* C38 (as stated): after scan_content every document loaded from a file
\* holds in its metadata the tags the frontmatter of the file declares, and
\* so does its page projection.
C38_TagsKeptInMetadata ==
    \A i \in 1..NumDocs :
        ~UnparsedDocument(i) =>
            /\ bScan[i].metadata.tags = DeclaredTags(bScan[i].at_path)
            /\ PageFrom(bScan[i]).meta.tags = DeclaredTags(bScan[i].at_path)

\* the key scan_content gives document i of the site in the route-keyed
\* map (lib.rs:125): the route of the path the glob yielded
ScanKey(i) == route_from_path(SiteContentDir, glDocs[i].at_path).route

\* the documents of the site that were loaded from their files
Parsed == { i \in 1..Len(glDocs) : glDocs[i].at_path # << >> }

\* C39 (as stated): the documents loaded from distinct content files have
\* distinct routes, so that the route-keyed map has one entry for each of
\* them, and no two of their Writable Outputs have the same path.
C39_OneEntryPerDocument ==
    /\ Cardinality({ ScanKey(i) : i \in Parsed }) = Cardinality(Parsed)
    /\ \A i, j \in Parsed :
          i # j => OutPathForDocument(glDocs[i]) # OutPathForDocument(glDocs[j])

(***************************************************************************)
(* The mutexes of one build: lib.rs:238-310, renderers/mod.rs, globals.rs  *)
(***************************************************************************)
\* the template names the frontmatters of a site ask for: one that
\* SiteTemplates holds last, one it holds first, one it does not hold
LockTemplateNames == { <<"default">>, <<"broken">>, <<"nosuch">> }

\* nobody holds the Mutex
Free == <<"free", 0>>

\* the holders of a Mutex: build() itself inside LiquidGlobals::new, the
\* convert task and the render task of document i
BuildHolder == <<"build", 0>>

ConvertHolder(i) == <<"convert", i>>

RenderHolder(i) == <<"render", i>>

LockDocs == 1..Len(lkNames)

\* renderers/mod.rs:208: the test the filter makes on template k while it
\* holds its lock
TemplateMatches(k, template_name) ==
    PathEndsWith(SiteTemplates[k].at_path, template_name \o <<".", "liquid">>)

InitLocks ==
    /\ IdleRoute
    /\ IdleGlobals
    /\ IdleBuild
    /\ IdleSort
    /\ IdleWatch
    /\ IdleReload
    /\ IdleServe
    /\ lkNames \in UNION { [1..n -> LockTemplateNames] : n \in 1..MaxDocs }
    /\ lkDoc = [i \in 1..Len(lkNames) |-> Free]
    /\ lkTpl = [k \in 1..Len(SiteTemplates) |-> Free]
    /\ lkBuild = [pc |-> "convert", idx |-> 0]
    /\ lkConvert = [i \in 1..Len(lkNames) |-> "unspawned"]
    /\ lkRender = [i \in 1..Len(lkNames) |-> [pc |-> "unspawned", k |-> 0]]
    /\ lkSide = [t \in 1..Len(SideTasks) |-> "unspawned"]

\* lib.rs:238-252: build() spawns one convert task per document
SpawnConvert ==
    /\ lkBuild.pc = "convert"
    /\ lkConvert' = [i \in LockDocs |-> "spawned"]
    /\ lkBuild' = [lkBuild EXCEPT !.pc = "join_convert"]
    /\ UNCHANGED <<lkNames, lkDoc, lkTpl, lkRender, lkSide, routeVars, globalsVars, buildVars, sortVars, watchVars,
                   reloadVars, serveVars>>

\* lib.rs:243: the convert task of document i locks the document
ConvertLock(i) ==
    /\ lkConvert[i] = "spawned"
    /\ lkDoc[i] = Free
    /\ lkDoc' = [lkDoc EXCEPT ![i] = ConvertHolder(i)]
    /\ lkConvert' = [lkConvert EXCEPT ![i] = "locked"]
    /\ UNCHANGED <<lkNames, lkTpl, lkBuild, lkRender, lkSide, routeVars, globalsVars, buildVars, sortVars, watchVars,
                   reloadVars, serveVars>>

\* lib.rs:244-251: it computes the route and the page and ends; the guard
\* is dropped
ConvertDone(i) ==
    /\ lkConvert[i] = "locked"
    /\ lkDoc' = [lkDoc EXCEPT ![i] = Free]
    /\ lkConvert' = [lkConvert EXCEPT ![i] = "done"]
    /\ UNCHANGED <<lkNames, lkTpl, lkBuild, lkRender, lkSide, routeVars, globalsVars, buildVars, sortVars, watchVars,
                   reloadVars, serveVars>>

\* lib.rs:254-262: join_all(convert_tasks), then the snapshot is filled
JoinConvert ==
    /\ lkBuild.pc = "join_convert"
    /\ \A i \in LockDocs : lkConvert[i] = "done"
    /\ lkBuild' = [pc |-> "globals", idx |-> 1]
    /\ UNCHANGED <<lkNames, lkDoc, lkTpl, lkConvert, lkRender, lkSide, routeVars, globalsVars, buildVars, sortVars, watchVars,
                   reloadVars, serveVars>>

\* lib.rs:279-284, globals.rs:54: LiquidGlobals::new, awaited by build(),
\* locks the document the context is made for
GlobalsLock ==
    /\ lkBuild.pc = "globals"
    /\ lkDoc[lkBuild.idx] = Free
    /\ lkDoc' = [lkDoc EXCEPT ![lkBuild.idx] = BuildHolder]
    /\ lkBuild' = [lkBuild EXCEPT !.pc = "spawn"]
    /\ UNCHANGED <<lkNames, lkTpl, lkConvert, lkRender, lkSide, routeVars, globalsVars, buildVars, sortVars, watchVars,
                   reloadVars, serveVars>>

\* globals.rs:110, lib.rs:290-298: LiquidGlobals::new returns, its guard is
\* dropped, and build() spawns the render task of the document and goes to
\* the next document
SpawnRender ==
    /\ lkBuild.pc = "spawn"
    /\ lkDoc' = [lkDoc EXCEPT ![lkBuild.idx] = Free]
    /\ lkRender' = [lkRender EXCEPT ![lkBuild.idx] = [pc |-> "spawned", k |-> 0]]
    /\ lkBuild' = IF lkBuild.idx < Len(lkNames)
                  THEN [pc |-> "globals", idx |-> lkBuild.idx + 1]
                  ELSE [pc |-> "side", idx |-> 0]
    /\ UNCHANGED <<lkNames, lkTpl, lkConvert, lkSide, routeVars, globalsVars, buildVars, sortVars, watchVars,
                   reloadVars, serveVars>>

\* lib.rs:301-306: the side-effect tasks are spawned
SpawnSide ==
    /\ lkBuild.pc = "side"
    /\ lkSide' = [t \in 1..Len(SideTasks) |-> "running"]
    /\ lkBuild' = [lkBuild EXCEPT !.pc = "join"]
    /\ UNCHANGED <<lkNames, lkDoc, lkTpl, lkConvert, lkRender, routeVars, globalsVars, buildVars, sortVars, watchVars,
                   reloadVars, serveVars>>

\* renderers/mod.rs:102: the render task of document i locks the document
\* and keeps the guard to its end
RenderLockDoc(i) ==
    /\ lkRender[i].pc = "spawned"
    /\ lkDoc[i] = Free
    /\ lkDoc' = [lkDoc EXCEPT ![i] = RenderHolder(i)]
    /\ lkRender' = [lkRender EXCEPT ![i] = [pc |-> "find", k |-> 1]]
    /\ UNCHANGED <<lkNames, lkTpl, lkBuild, lkConvert, lkSide, routeVars, globalsVars, buildVars, sortVars, watchVars,
                   reloadVars, serveVars>>

\* renderers/mod.rs:204-208: the filter of find_template_by_string locks
\* the next template
FindLock(i) ==
    /\ lkRender[i].pc = "find"
    /\ lkRender[i].k <= Len(SiteTemplates)
    /\ lkTpl[lkRender[i].k] = Free
    /\ lkTpl' = [lkTpl EXCEPT ![lkRender[i].k] = RenderHolder(i)]
    /\ lkRender' = [lkRender EXCEPT ![i].pc = "test"]
    /\ UNCHANGED <<lkNames, lkDoc, lkBuild, lkConvert, lkSide, routeVars, globalsVars, buildVars, sortVars, watchVars,
                   reloadVars, serveVars>>

\* a mutant: the filter keeps the guard of the template it tested
FindTest_KeepLock(i) ==
    /\ lkRender[i].pc = "test"
    /\ lkRender' = [lkRender EXCEPT ![i] =
                      IF TemplateMatches(lkRender[i].k, lkNames[i])
                      THEN [pc |-> "render", k |-> lkRender[i].k]
                      ELSE [pc |-> "find", k |-> lkRender[i].k + 1]]
    /\ UNCHANGED <<lkNames, lkDoc, lkTpl, lkBuild, lkConvert, lkSide, routeVars, globalsVars, buildVars, sortVars, watchVars,
                   reloadVars, serveVars>>

\* renderers/mod.rs:208-211: the path of the locked template is tested and
\* the guard, a temporary of the test, is dropped; the stream ends at the
\* first template that matches
FindTest(i) ==
    /\ lkRender[i].pc = "test"
    /\ lkTpl' = [lkTpl EXCEPT ![lkRender[i].k] = Free]
    /\ lkRender' = [lkRender EXCEPT ![i] =
                      IF TemplateMatches(lkRender[i].k, lkNames[i])
                      THEN [pc |-> "render", k |-> lkRender[i].k]
                      ELSE [pc |-> "find", k |-> lkRender[i].k + 1]]
    /\ UNCHANGED <<lkNames, lkDoc, lkBuild, lkConvert, lkSide, routeVars, globalsVars, buildVars, sortVars, watchVars,
                   reloadVars, serveVars>>

\* renderers/mod.rs:103-106: no template matched and the unwrap of None
\* panics; the unwinding drops the guard of the document
FindNone(i) ==
    /\ lkRender[i].pc = "find"
    /\ lkRender[i].k > Len(SiteTemplates)
    /\ lkDoc' = [lkDoc EXCEPT ![i] = Free]
    /\ lkRender' = [lkRender EXCEPT ![i].pc = "panicked"]
    /\ UNCHANGED <<lkNames, lkTpl, lkBuild, lkConvert, lkSide, routeVars, globalsVars, buildVars, sortVars, watchVars,
                   reloadVars, serveVars>>

\* renderers/mod.rs:57: TemplateRenderer::render locks the template found,
\* the render task still holding the guard of its document
RenderLockTemplate(i) ==
    /\ lkRender[i].pc = "render"
    /\ lkTpl[lkRender[i].k] = Free
    /\ lkTpl' = [lkTpl EXCEPT ![lkRender[i].k] = RenderHolder(i)]
    /\ lkRender' = [lkRender EXCEPT ![i].pc = "rendering"]
    /\ UNCHANGED <<lkNames, lkDoc, lkBuild, lkConvert, lkSide, routeVars, globalsVars, buildVars, sortVars, watchVars,
                   reloadVars, serveVars>>

\* renderers/mod.rs:59-69, 117: the template is rendered, by Ok or by Err,
\* and the task ends; both guards are dropped
RenderEnds(i) ==
    /\ lkRender[i].pc = "rendering"
    /\ lkTpl' = [lkTpl EXCEPT ![lkRender[i].k] = Free]
    /\ lkDoc' = [lkDoc EXCEPT ![i] = Free]
    /\ lkRender' = [lkRender EXCEPT ![i].pc = "done"]
    /\ UNCHANGED <<lkNames, lkBuild, lkConvert, lkSide, routeVars, globalsVars, buildVars, sortVars, watchVars,
                   reloadVars, serveVars>>

\* lib.rs:305: a side-effect task runs to its end; it takes no Mutex that
\* another task can reach (the feed tasks lock a document of their own)
SideRun(t) ==
    /\ lkSide[t] = "running"
    /\ lkSide' = [lkSide EXCEPT ![t] = "done"]
    /\ UNCHANGED <<lkNames, lkDoc, lkTpl, lkBuild, lkConvert, lkRender, routeVars, globalsVars, buildVars, sortVars, watchVars,
                   reloadVars, serveVars>>

\* lib.rs:308-310: join_all(tasks) returns when every task has ended
JoinTasks ==
    /\ lkBuild.pc = "join"
    /\ \A i \in LockDocs : lkRender[i].pc \in { "done", "panicked" }
    /\ \A t \in 1..Len(SideTasks) : lkSide[t] = "done"
    /\ lkBuild' = [lkBuild EXCEPT !.pc = "joined"]
    /\ UNCHANGED <<lkNames, lkDoc, lkTpl, lkConvert, lkRender, lkSide, routeVars, globalsVars, buildVars, sortVars, watchVars,
                   reloadVars, serveVars>>

\* lib.rs:313-336: the results are gone through and build() returns
BuildReturns ==
    /\ lkBuild.pc = "joined"
    /\ lkBuild' = [lkBuild EXCEPT !.pc = "returned"]
    /\ UNCHANGED <<lkNames, lkDoc, lkTpl, lkConvert, lkRender, lkSide, routeVars, globalsVars, buildVars, sortVars, watchVars,
                   reloadVars, serveVars>>

\* the steps of build() itself
BuildStep ==
    \/ SpawnConvert
    \/ JoinConvert
    \/ GlobalsLock
    \/ SpawnRender
    \/ SpawnSide
    \/ JoinTasks
    \/ BuildReturns

\* the steps of the convert task of document i
ConvertStep(i) == ConvertLock(i) \/ ConvertDone(i)

\* the steps of the render task of document i
RenderStep(i) ==
    \/ RenderLockDoc(i)
    \/ FindLock(i)
    \/ FindTest(i)
    \/ FindNone(i)
    \/ RenderLockTemplate(i)
    \/ RenderEnds(i)

NextLocks ==
    \/ BuildStep
    \/ \E i \in LockDocs : ConvertStep(i)
    \/ \E i \in LockDocs : RenderStep(i)
    \/ \E t \in 1..Len(SideTasks) : SideRun(t)

SpecLocks == InitLocks /\ [][NextLocks]_vars

\* the runtime runs every spawned task that can go on, and build() when
\* what it awaits is ready
SpecLocksFair ==
    /\ SpecLocks
    /\ WF_vars(BuildStep)
    /\ \A i \in 1..MaxDocs : WF_vars(i \in LockDocs /\ ConvertStep(i))
    /\ \A i \in 1..MaxDocs : WF_vars(i \in LockDocs /\ RenderStep(i))
    /\ \A t \in 1..Len(SideTasks) : WF_vars(SideRun(t))

(***************************************************************************)
(* Claims about the termination of a build, checked under SpecLocksFair    *)
(***************************************************************************)
\* C40: every build reaches its join point and returns: the render tasks,
\* each holding the lock of its document while it takes the locks of the
\* templates one at a time, and the side-effect tasks all end.
C40_BuildTerminates == <>(lkBuild.pc = "returned")

\* C40 witness: the build of two documents that ask for the same template
\* has returned, both render tasks having rendered it, and every Mutex is
\* free.
C40_Witness ==
    /\ lkBuild.pc = "returned"
    /\ Len(lkNames) = 2 /\ lkNames[1] = lkNames[2]
    /\ \A i \in LockDocs : lkRender[i].pc = "done"
    /\ \A i \in LockDocs : lkDoc[i] = Free
    /\ \A k \in 1..Len(SiteTemplates) : lkTpl[k] = Free

====
